---- MODULE Spec2Model ----
(***************************************************************************)
(* Delay-based congestion controller (interceptor/src/gcc).               *)
(*                                                                         *)
(* AimdRateControl and the LinkCapacityEstimator it owns, as a state      *)
(* machine driven by a single caller.  DataRate values are bits per       *)
(* second, Timestamp and TimeDelta values are microseconds, as in the     *)
(* source.  f64 quantities are carried as exact rationals where the       *)
(* source only multiplies an integer by a constant (beta = 85/100,        *)
(* 1.5 = 3/2, 1.08 - 1 = 8/100) and in thousandths of a kbps for the      *)
(* link capacity estimator's running averages.  Every `as i64` cast of    *)
(* a non-negative f64 is a truncation (floor).                            *)
(***************************************************************************)
EXTENDS Integers, FiniteSets, Sequences, TLC

Min(a, b) == IF a < b THEN a ELSE b
Max(a, b) == IF a > b THEN a ELSE b

\* Option<T>
None == [some |-> FALSE, v |-> 0]
Some(x) == [some |-> TRUE, v |-> x]

(***************************************************************************)
(* data_rate.rs / time.rs                                                  *)
(***************************************************************************)
\* i64::MAX and i64::MIN, the reserved infinities.  The checker's integers
\* are narrower than 64 bits; every finite quantity of the model stays
\* strictly between the two stand-ins, so comparisons against them are the
\* source's.
PLUS_INFINITY_VAL == 2147483647
MINUS_INFINITY_VAL == -2147483647

is_infinite(x) == x = PLUS_INFINITY_VAL \/ x = MINUS_INFINITY_VAL
is_finite(x) == ~is_infinite(x)

\* TimeDelta::seconds: whole seconds, truncated.
seconds(us) == us \div 1000000

\* floor((a * b + c) / n) for a, b, c >= 0 and n > 0, computed without an
\* intermediate product wider than the checker's integers (the source
\* computes these in i64 or f64, where they fit): b is taken sixteen at a
\* time, for a and n below 10^8.  The quotient saturates at 10^8, above
\* every rate, size and duration of the model.
RECURSIVE MulDivQR(_, _, _)
MulDivQR(a, b, n) ==
    IF b = 0 THEN [q |-> 0, r |-> 0]
    ELSE LET h == MulDivQR(a, b \div 16, n)
             t == 16 * h.r + (b % 16) * a
         IN  [q |-> Min(100000000, 16 * h.q + t \div n), r |-> t % n]

MulDiv(a, b, c, n) ==
    LET h == IF a >= b THEN MulDivQR(a, b, n) ELSE MulDivQR(b, a, n)
    IN  Min(100000000, h.q + (h.r + c) \div n)

\* impl Mul<f64> for DataRate, the f64 given as num/den.
rate_mul_f64(rate, num, den) == MulDiv(rate, num, 0, den)

\* impl Mul<TimeDelta> for DataRate: bytes = (bps * us + 4_000_000) / 8_000_000.
rate_mul_time(bps, us) == MulDiv(bps, us, 4000000, 8000000)

\* impl Div<TimeDelta> for DataSize: bps = bytes * 8_000_000 / us.
size_div_time(bytes, us) == MulDiv(bytes, 8000000, 0, us)

(***************************************************************************)
(* link_capacity_estimator.rs                                              *)
(* estimate_kbps and deviation_kbps are held in thousandths.               *)
(***************************************************************************)
LinkCapacityEstimator_new == [estimate_kbps |-> None, deviation_kbps |-> 400]

\* d * e as <<h, l>> with d * e = h * 2^20 + l and 0 <= l < 2^20,
\* for 0 <= d < 2^12 and 0 <= e < 2^27.
Wide(d, e) ==
    LET u == d * (e \div 1024)
        l == (u % 1024) * 1024 + d * (e % 1024)
    IN  <<u \div 1024 + l \div 1048576, l % 1048576>>

\* m * m <= w, for 0 <= m < 2^20 and w as Wide gives it.
SquareFits(m, w) ==
    LET mh == m \div 1024
        ml == m % 1024
        t == 2048 * mh * ml + ml * ml
        h == mh * mh + t \div 1048576
    IN  h < w[1] \/ (h = w[1] /\ t % 1048576 <= w[2])

\* The largest m in [lo, hi) with m * m <= w, by bisection.
RECURSIVE SqrtWide(_, _, _)
SqrtWide(w, lo, hi) ==
    IF hi - lo <= 1 THEN lo
    ELSE LET mid == (lo + hi) \div 2
         IN  IF SquareFits(mid, w) THEN SqrtWide(w, mid, hi) ELSE SqrtWide(w, lo, mid)

\* f64::sqrt(deviation_kbps * estimate_kbps), in thousandths of a kbps,
\* rounded down.
deviation_estimate_kbps(lc, estimate_kbps) ==
    SqrtWide(Wide(lc.deviation_kbps, estimate_kbps), 0, 1048576)

has_estimate(lc) == lc.estimate_kbps.some

link_capacity_upper_bound(lc) ==
    IF lc.estimate_kbps.some
    THEN LET e == lc.estimate_kbps.v
         IN  1000 * ((e + 3 * deviation_estimate_kbps(lc, e)) \div 1000)
    ELSE PLUS_INFINITY_VAL

link_capacity_lower_bound(lc) ==
    IF lc.estimate_kbps.some
    THEN LET e == lc.estimate_kbps.v
         IN  1000 * (Max(0, e - 3 * deviation_estimate_kbps(lc, e)) \div 1000)
    ELSE 0

link_capacity_estimate(lc) == 1000 * (lc.estimate_kbps.v \div 1000)

link_capacity_reset(lc) == [lc EXCEPT !.estimate_kbps = None]

\* f64::clamp(deviation_kbps, 0.4, 2.5), in thousandths.
clamp_deviation_none(dev) == dev

clamp_deviation(dev) == Max(400, Min(2500, dev))

\* alpha is given in hundredths (5 for 0.05, 50 for 0.5).
link_capacity_update(lc, capacity_sample, alpha) ==
    LET sample_kbps == 1000 * (capacity_sample \div 1000)
        est == IF lc.estimate_kbps.some
               THEN MulDiv(lc.estimate_kbps.v, 100 - alpha, 0, 100)
                    + MulDiv(sample_kbps, alpha, 0, 100)
               ELSE sample_kbps
        norm == Max(est, 1000)
        error_kbps == IF est >= sample_kbps THEN est - sample_kbps ELSE sample_kbps - est
        \* error_kbps^2 / norm, in thousandths
        sq == MulDiv(error_kbps, error_kbps, 0, norm)
        dev == MulDiv(lc.deviation_kbps, 100 - alpha, 0, 100) + MulDiv(sq, alpha, 0, 100)
    IN  [estimate_kbps |-> Some(est), deviation_kbps |-> clamp_deviation(dev)]

on_overuse_detected(lc, acknowledged_rate) == link_capacity_update(lc, acknowledged_rate, 5)

on_probe_rate(lc, probe_rate) == link_capacity_update(lc, probe_rate, 50)

(***************************************************************************)
(* aimd_rate_control.rs                                                    *)
(***************************************************************************)
CONGESTION_CONTROLLER_MIN_BITRATE == 5000
DEFAULT_RTT == 200000
\* DEFAULT_BACKOFF_FACTOR = 0.85, in hundredths
DEFAULT_BACKOFF_FACTOR == 85
INITIALIZATION_TIME == 5000000
\* DataRate::from_kilobits_per_sec(30_000)
MAX_CONFIGURED_BITRATE == 30000000

\* NetworkStateEstimate::default(): the two fields the controller reads.
NetworkStateEstimate_default ==
    [link_capacity_lower |-> MINUS_INFINITY_VAL, link_capacity_upper |-> MINUS_INFINITY_VAL]

\* Option<NetworkStateEstimate>::None
NoNetworkStateEstimate == [some |-> FALSE, v |-> NetworkStateEstimate_default]

AimdRateControlConfig_default ==
    [beta |-> DEFAULT_BACKOFF_FACTOR,
     no_bitrate_increase_in_alr |-> FALSE,
     subtract_additional_backoff_term |-> TRUE,
     disable_estimate_bounded_increase |-> FALSE,
     use_current_estimate_as_min_upper_bound |-> TRUE]

AimdRateControl_new(config, send_side) ==
    [min_configured_bitrate |-> CONGESTION_CONTROLLER_MIN_BITRATE,
     max_configured_bitrate |-> MAX_CONFIGURED_BITRATE,
     current_bitrate |-> MAX_CONFIGURED_BITRATE,
     latest_estimated_throughput |-> MAX_CONFIGURED_BITRATE,
     link_capacity |-> LinkCapacityEstimator_new,
     network_estimate |-> NoNetworkStateEstimate,
     rate_control_state |-> "Hold",
     time_last_bitrate_change |-> MINUS_INFINITY_VAL,
     time_last_bitrate_decrease |-> MINUS_INFINITY_VAL,
     time_first_throughput_estimate |-> MINUS_INFINITY_VAL,
     bitrate_is_initialized |-> FALSE,
     beta |-> config.beta,
     in_alr |-> FALSE,
     rtt |-> DEFAULT_RTT,
     send_side |-> send_side,
     no_bitrate_increase_in_alr |-> config.no_bitrate_increase_in_alr,
     subtract_additional_backoff_term |-> config.subtract_additional_backoff_term,
     last_decrease |-> None,
     disable_estimate_bounded_increase |-> config.disable_estimate_bounded_increase,
     use_current_estimate_as_min_upper_bound |-> config.use_current_estimate_as_min_upper_bound]

set_start_bitrate(self, start_bitrate) ==
    [self EXCEPT !.current_bitrate = start_bitrate,
                 !.latest_estimated_throughput = start_bitrate,
                 !.bitrate_is_initialized = TRUE]

\* set_min_bitrate raising the bitrate to the new minimum.
set_min_bitrate_raising(self, min_bitrate) ==
    [self EXCEPT !.min_configured_bitrate = min_bitrate,
                 !.current_bitrate = Max(min_bitrate, self.current_bitrate)]

set_min_bitrate(self, min_bitrate) ==
    [self EXCEPT !.min_configured_bitrate = min_bitrate,
                 !.current_bitrate = Min(min_bitrate, self.current_bitrate)]

valid_estimate(self) == self.bitrate_is_initialized

latest_estimate(self) == self.current_bitrate

set_rtt(self, rtt) == [self EXCEPT !.rtt = rtt]

set_in_application_limited_region(self, in_alr) == [self EXCEPT !.in_alr = in_alr]

set_network_state_estimate(self, estimate) == [self EXCEPT !.network_estimate = estimate]

\* Variant: the current bitrate is not used as the least upper bound.
clamp_upper_bound_plain(self) == self.network_estimate.v.link_capacity_upper

\* Variant: the current bitrate always counts as the least upper bound.
clamp_upper_bound_current(self) ==
    Max(self.network_estimate.v.link_capacity_upper, self.current_bitrate)

\* Variant: a network upper bound below the current bitrate is ignored.
clamp_upper_bound_ignored(self) ==
    IF self.use_current_estimate_as_min_upper_bound
    THEN (IF self.network_estimate.v.link_capacity_upper < self.current_bitrate
          THEN PLUS_INFINITY_VAL
          ELSE self.network_estimate.v.link_capacity_upper)
    ELSE self.network_estimate.v.link_capacity_upper

\* The upper bound clamp_bitrate takes from the network estimate.
clamp_upper_bound(self) ==
    IF self.use_current_estimate_as_min_upper_bound
    THEN Max(self.network_estimate.v.link_capacity_upper, self.current_bitrate)
    ELSE self.network_estimate.v.link_capacity_upper

\* Variant: the lower bound is applied without the backoff factor.
clamp_lower_bound_no_backoff(self) == self.network_estimate.v.link_capacity_lower

\* `network_estimate.link_capacity_lower * self.beta`
clamp_lower_bound(self) ==
    rate_mul_f64(self.network_estimate.v.link_capacity_lower, self.beta, 100)

clamp_bitrate(self, bitrate) ==
    LET ne == self.network_estimate.v
        b1 == IF self.network_estimate.some
                 /\ ~self.disable_estimate_bounded_increase
                 /\ is_finite(ne.link_capacity_upper)
              THEN Min(clamp_upper_bound(self), bitrate)
              ELSE bitrate
        b2 == IF self.network_estimate.some
                 /\ is_finite(ne.link_capacity_lower)
                 /\ b1 < self.current_bitrate
              THEN Min(self.current_bitrate,
                       Max(b1, clamp_lower_bound(self)))
              ELSE b1
    IN  Max(b2, self.min_configured_bitrate)

\* Variant: a lowered estimate stamps the decrease only.
set_estimate_stamps_decrease_only(self, bitrate, at_time) ==
    LET s1 == [self EXCEPT !.bitrate_is_initialized = TRUE]
        prev_bitrate == s1.current_bitrate
        s2 == [s1 EXCEPT !.current_bitrate = clamp_bitrate(s1, bitrate)]
    IN  IF s2.current_bitrate < prev_bitrate
        THEN [s2 EXCEPT !.time_last_bitrate_decrease = at_time]
        ELSE [s2 EXCEPT !.time_last_bitrate_change = at_time]

set_estimate(self, bitrate, at_time) ==
    LET s1 == [self EXCEPT !.bitrate_is_initialized = TRUE]
        prev_bitrate == s1.current_bitrate
        s2 == [s1 EXCEPT !.current_bitrate = clamp_bitrate(s1, bitrate),
                         !.time_last_bitrate_change = at_time]
    IN  IF s2.current_bitrate < prev_bitrate
        THEN [s2 EXCEPT !.time_last_bitrate_decrease = at_time]
        ELSE s2

\* `assert!(!self.current_bitrate.is_zero())`: TRUE when the assertion fails.
get_near_max_increase_rate_panics(self) == self.current_bitrate = 0

get_near_max_increase_rate_bps_per_second(self) ==
    LET frame_size == rate_mul_time(self.current_bitrate, 33333)
        \* ceil(frame_size / 1200)
        packets_per_frame == (frame_size + 1199) \div 1200
        \* DataSize / f64: 0 / 0.0 is NaN, and NaN as i64 is 0
        avg_packet_size == IF packets_per_frame = 0 THEN 0
                           ELSE frame_size \div packets_per_frame
        response_time == 2 * (self.rtt + 100000)
        increase_rate_bps_per_second == size_div_time(avg_packet_size, response_time)
    IN  Max(4000, increase_rate_bps_per_second)

\* Variant: the period is not raised to MIN_PERIOD.
get_expected_bandwidth_period_no_min(self) ==
    LET increase_rate_bps_per_second == get_near_max_increase_rate_bps_per_second(self)
        time_to_recover_decrease_seconds ==
            self.last_decrease.v \div increase_rate_bps_per_second
    IN  [panics |-> get_near_max_increase_rate_panics(self),
         v |-> IF ~self.last_decrease.some THEN 3000000
               ELSE 1000000 * Min(time_to_recover_decrease_seconds, 50)]

\* get_expected_bandwidth_period: the near-max increase rate is computed
\* (and its assertion made) before last_decrease is looked at.  v is in
\* microseconds; the whole seconds are cut at 50, the upper clamp, before
\* they are scaled.
get_expected_bandwidth_period(self) ==
    LET increase_rate_bps_per_second == get_near_max_increase_rate_bps_per_second(self)
        time_to_recover_decrease_seconds ==
            self.last_decrease.v \div increase_rate_bps_per_second
        period == 1000000 * Min(time_to_recover_decrease_seconds, 50)
    IN  [panics |-> get_near_max_increase_rate_panics(self),
         v |-> IF ~self.last_decrease.some THEN 3000000
               ELSE Max(2000000, Min(50000000, period))]

\* get_feedback_interval: RTCP_SIZE / rtcp_bitrate is the integer division
\* microbits / bps, which panics when rtcp_bitrate is 0 bps.  v is in
\* microseconds.
get_feedback_interval(self) ==
    LET rtcp_bitrate == rate_mul_f64(self.current_bitrate, 5, 100)
    IN  IF rtcp_bitrate = 0 THEN [panics |-> TRUE, v |-> 0]
        ELSE [panics |-> FALSE,
              v |-> Max(200000, Min(1000000, (80 * 8000000) \div rtcp_bitrate))]

\* impl Sub<Timestamp> for Timestamp is `self.value - rhs.value` on i64:
\* TRUE when the difference is outside i64, which it is only when one side
\* is an infinity (finite times are far from the ends of i64).
timestamp_sub_overflows(a, b) ==
    \/ is_finite(a) /\ a >= 0 /\ b = MINUS_INFINITY_VAL
    \/ is_finite(a) /\ a < -1 /\ b = PLUS_INFINITY_VAL
    \/ a = PLUS_INFINITY_VAL /\ is_finite(b) /\ b < 0
    \/ a = MINUS_INFINITY_VAL /\ is_finite(b) /\ b > 0

\* time_to_reduce_further: the outcomes a build can produce, "true",
\* "false" or "panic".  An overflowing at_time - time_last_bitrate_change
\* panics where overflow is checked and wraps elsewhere; at_time - i64::MIN
\* wraps to a negative delta, below every reduction interval.
time_to_reduce_further(self, at_time, estimated_throughput) ==
    LET bitrate_reduction_interval == Max(10000, Min(200000, self.rtt))
        threshold == rate_mul_f64(latest_estimate(self), 1, 2)
        by_threshold == IF valid_estimate(self) /\ estimated_throughput < threshold
                        THEN "true" ELSE "false"
    IN  IF timestamp_sub_overflows(at_time, self.time_last_bitrate_change)
        THEN {"panic", by_threshold}
        ELSE IF at_time - self.time_last_bitrate_change >= bitrate_reduction_interval
        THEN {"true"}
        ELSE {by_threshold}

\* 1.08^min(seconds, 1.0) - 1.0, in hundredths, for seconds >= 0.
alpha_minus_one(at_time, last_time) ==
    IF is_finite(last_time)
    THEN (IF Min(seconds(at_time - last_time), 1) >= 1 THEN 8 ELSE 0)
    ELSE 8

multiplicative_rate_increase(self, at_time, last_time, current_bitrate) ==
    Max(rate_mul_f64(current_bitrate, alpha_minus_one(at_time, last_time), 100), 1000)

additive_rate_increase(self, at_time, last_time) ==
    LET time_period_seconds == seconds(at_time - last_time)
    IN  get_near_max_increase_rate_bps_per_second(self) * time_period_seconds

\* Variant: over-use moves to Decrease from Hold only.
change_state_overuse_from_hold(self, input, at_time) ==
    CASE input.bw_state = "Normal" ->
            IF self.rate_control_state = "Hold"
            THEN [self EXCEPT !.time_last_bitrate_change = at_time,
                              !.rate_control_state = "Increase"]
            ELSE self
      [] input.bw_state = "Overusing" ->
            IF self.rate_control_state = "Hold"
            THEN [self EXCEPT !.rate_control_state = "Decrease"]
            ELSE self
      [] input.bw_state = "Underusing" ->
            [self EXCEPT !.rate_control_state = "Hold"]

\* Variant: under-use leaves the state as it is.
change_state_underuse_keeps(self, input, at_time) ==
    CASE input.bw_state = "Normal" ->
            IF self.rate_control_state = "Hold"
            THEN [self EXCEPT !.time_last_bitrate_change = at_time,
                              !.rate_control_state = "Increase"]
            ELSE self
      [] input.bw_state = "Overusing" ->
            IF self.rate_control_state # "Decrease"
            THEN [self EXCEPT !.rate_control_state = "Decrease"]
            ELSE self
      [] input.bw_state = "Underusing" -> self

change_state(self, input, at_time) ==
    CASE input.bw_state = "Normal" ->
            IF self.rate_control_state = "Hold"
            THEN [self EXCEPT !.time_last_bitrate_change = at_time,
                              !.rate_control_state = "Increase"]
            ELSE self
      [] input.bw_state = "Overusing" ->
            IF self.rate_control_state # "Decrease"
            THEN [self EXCEPT !.rate_control_state = "Decrease"]
            ELSE self
      [] input.bw_state = "Underusing" ->
            [self EXCEPT !.rate_control_state = "Hold"]

\* Variant: the initialization time counts as passed at exactly 5 s.
initialization_time_passed_inclusive(self, at_time) ==
    at_time - self.time_first_throughput_estimate >= INITIALIZATION_TIME

\* The `at_time - time_first_throughput_estimate > INITIALIZATION_TIME` test.
initialization_time_passed(self, at_time) ==
    at_time - self.time_first_throughput_estimate > INITIALIZATION_TIME

\* update, up to the call of change_bitrate.
update_initialize(self, input, at_time) ==
    IF ~self.bitrate_is_initialized
    THEN IF is_infinite(self.time_first_throughput_estimate)
         THEN IF input.estimated_throughput.some
              THEN [self EXCEPT !.time_first_throughput_estimate = at_time]
              ELSE self
         ELSE IF initialization_time_passed(self, at_time)
                 /\ input.estimated_throughput.some
              THEN [self EXCEPT !.current_bitrate = input.estimated_throughput.v,
                                !.bitrate_is_initialized = TRUE]
              ELSE self
    ELSE self

\* Variant: the allowance on top of 1.5 * throughput is 100 kbps.
increase_limit_of_wide(throughput) == rate_mul_f64(throughput, 3, 2) + 100000

\* 1.5 * estimated_throughput + DataRate::from_kilobits_per_sec(10)
increase_limit_of(throughput) == rate_mul_f64(throughput, 3, 2) + 10000

\* Variant: the ALR rule applies on the receive side.
alr_forbids_increase_receive_side(self) ==
    ~self.send_side /\ self.in_alr /\ self.no_bitrate_increase_in_alr

\* `self.send_side && self.in_alr && self.no_bitrate_increase_in_alr`
alr_forbids_increase(self) ==
    self.send_side /\ self.in_alr /\ self.no_bitrate_increase_in_alr

\* The Increase arm of change_bitrate: the controller and new_bitrate.
increase_branch(self, estimated_throughput, at_time) ==
    LET s1 == IF estimated_throughput > link_capacity_upper_bound(self.link_capacity)
              THEN [self EXCEPT !.link_capacity = link_capacity_reset(self.link_capacity)]
              ELSE self
        increase_limit ==
            IF alr_forbids_increase(s1)
            THEN s1.current_bitrate
            ELSE increase_limit_of(estimated_throughput)
        increased_bitrate ==
            IF has_estimate(s1.link_capacity)
            THEN s1.current_bitrate
                 + additive_rate_increase(s1, at_time, s1.time_last_bitrate_change)
            ELSE s1.current_bitrate
                 + multiplicative_rate_increase(s1, at_time, s1.time_last_bitrate_change,
                                                s1.current_bitrate)
        new_bitrate == IF s1.current_bitrate < increase_limit
                       THEN Some(Min(increased_bitrate, increase_limit))
                       ELSE None
        \* additive_rate_increase asks for the near-max increase rate, which
        \* asserts a non-zero bitrate: the call does not return.
        panics == /\ s1.current_bitrate < increase_limit
                  /\ has_estimate(s1.link_capacity)
                  /\ get_near_max_increase_rate_panics(s1)
    IN  IF panics
        THEN [self |-> s1, new_bitrate |-> None, panics |-> TRUE]
        ELSE [self |-> [s1 EXCEPT !.time_last_bitrate_change = at_time],
              new_bitrate |-> new_bitrate, panics |-> FALSE]

\* Variant: the decrease leaves the state in Decrease.
decrease_finish_no_hold(self, at_time) ==
    [self EXCEPT !.time_last_bitrate_change = at_time,
                 !.time_last_bitrate_decrease = at_time]

\* The end of the Decrease arm: "stay on hold until the pipes are cleared".
decrease_finish(self, at_time) ==
    [self EXCEPT !.rate_control_state = "Hold",
                 !.time_last_bitrate_change = at_time,
                 !.time_last_bitrate_decrease = at_time]

\* Variant: the 5 kbps term is subtracted whatever the configuration says.
backoff_term_applies_always(self, decreased_bitrate) == decreased_bitrate > 5000

\* `decreased_bitrate > DataRate::from_kilobits_per_sec(5)
\*  && self.subtract_additional_backoff_term`
backoff_term_applies(self, decreased_bitrate) ==
    decreased_bitrate > 5000 /\ self.subtract_additional_backoff_term

\* The Decrease arm of change_bitrate: the controller and new_bitrate.
decrease_branch(self, estimated_throughput, at_time) ==
    LET d0 == rate_mul_f64(estimated_throughput, self.beta, 100)
        d1 == IF backoff_term_applies(self, d0) THEN d0 - 5000 ELSE d0
        decreased_bitrate ==
            IF d1 > self.current_bitrate /\ has_estimate(self.link_capacity)
            THEN rate_mul_f64(link_capacity_estimate(self.link_capacity), self.beta, 100)
            ELSE d1
        new_bitrate == IF decreased_bitrate < self.current_bitrate
                       THEN Some(decreased_bitrate) ELSE None
        last_decrease ==
            IF self.bitrate_is_initialized /\ estimated_throughput < self.current_bitrate
            THEN (IF new_bitrate.some
                  THEN Some(self.current_bitrate - new_bitrate.v)
                  ELSE Some(0))
            ELSE self.last_decrease
        lc1 == IF estimated_throughput < link_capacity_lower_bound(self.link_capacity)
               THEN link_capacity_reset(self.link_capacity)
               ELSE self.link_capacity
    IN  [self |-> decrease_finish(
                      [self EXCEPT !.last_decrease = last_decrease,
                                   !.bitrate_is_initialized = TRUE,
                                   !.link_capacity =
                                       on_overuse_detected(lc1, estimated_throughput)],
                      at_time),
         new_bitrate |-> new_bitrate, panics |-> FALSE]

\* Variant: an uninitialized controller ignores over-use too.
returns_early_uninitialized(self, input) == ~self.bitrate_is_initialized

\* Variant: only under-use is ignored before initialization.
returns_early_underusing(self, input) ==
    ~self.bitrate_is_initialized /\ input.bw_state = "Underusing"

\* TRUE when change_bitrate returns early, before change_state.
returns_early(self, input) ==
    ~self.bitrate_is_initialized /\ input.bw_state # "Overusing"

change_bitrate(self, input, at_time) ==
    LET estimated_throughput == IF input.estimated_throughput.some
                                THEN input.estimated_throughput.v
                                ELSE self.latest_estimated_throughput
        s0 == IF input.estimated_throughput.some
              THEN [self EXCEPT !.latest_estimated_throughput = input.estimated_throughput.v]
              ELSE self
        s1 == change_state(s0, input, at_time)
        r == CASE s1.rate_control_state = "Hold" ->
                      [self |-> s1, new_bitrate |-> None, panics |-> FALSE]
               [] s1.rate_control_state = "Increase" ->
                      increase_branch(s1, estimated_throughput, at_time)
               [] s1.rate_control_state = "Decrease" ->
                      decrease_branch(s1, estimated_throughput, at_time)
        target == IF r.new_bitrate.some THEN r.new_bitrate.v ELSE r.self.current_bitrate
    IN  IF returns_early(s0, input) THEN s0
        ELSE IF r.panics THEN r.self
        ELSE [r.self EXCEPT !.current_bitrate = clamp_bitrate(r.self, target)]

\* TRUE when change_bitrate panics: the controller keeps what was written
\* before the failed assertion.
change_bitrate_panics(self, input, at_time) ==
    LET estimated_throughput == IF input.estimated_throughput.some
                                THEN input.estimated_throughput.v
                                ELSE self.latest_estimated_throughput
        s1 == change_state(self, input, at_time)
    IN  /\ ~returns_early(self, input)
        /\ s1.rate_control_state = "Increase"
        /\ increase_branch(s1, estimated_throughput, at_time).panics

update(self, input, at_time) ==
    change_bitrate(update_initialize(self, input, at_time), input, at_time)

update_panics(self, input, at_time) ==
    change_bitrate_panics(update_initialize(self, input, at_time), input, at_time)

\* The arm of the `match self.rate_control_state` in change_bitrate that an
\* update executes: the state change_state leaves, or "Return" when
\* change_bitrate returns before it.
executed_branch(self, input, at_time) ==
    LET s0 == update_initialize(self, input, at_time)
    IN  IF returns_early(s0, input) THEN "Return"
        ELSE change_state(s0, input, at_time).rate_control_state

(***************************************************************************)
(* InterArrivalDelta: the grouping of packets into send bursts.            *)
(***************************************************************************)
REORDERED_RESET_THRESHOLD == 3
ARRIVAL_TIME_OFFSET_THRESHOLD == 3000000
BURST_DELTA_THRESHOLD == 5000
MAX_BURST_DURATION == 100000

SendTimeGroup_new ==
    [size |-> 0,
     first_send_time |-> MINUS_INFINITY_VAL,
     send_time |-> MINUS_INFINITY_VAL,
     first_arrival |-> MINUS_INFINITY_VAL,
     complete_time |-> MINUS_INFINITY_VAL,
     last_system_time |-> MINUS_INFINITY_VAL]

is_first_packet(group) == is_infinite(group.complete_time)

InterArrivalDelta_new(send_time_group_length) ==
    [send_time_group_length |-> send_time_group_length,
     current_timestamp_group |-> SendTimeGroup_new,
     prev_timestamp_group |-> SendTimeGroup_new,
     num_consecutive_reordered_packets |-> 0]

\* A reset that forgets the current group only.
reset_current_only(self) ==
    [self EXCEPT !.num_consecutive_reordered_packets = 0,
                 !.current_timestamp_group = SendTimeGroup_new]

reset(self) ==
    [self EXCEPT !.num_consecutive_reordered_packets = 0,
                 !.current_timestamp_group = SendTimeGroup_new,
                 !.prev_timestamp_group = SendTimeGroup_new]

belongs_to_burst(self, arrival_time, send_time) ==
    LET cur == self.current_timestamp_group
        arrival_time_delta == arrival_time - cur.complete_time
        send_time_delta == send_time - cur.send_time
        propagation_delta == arrival_time_delta - send_time_delta
    IN  \/ send_time_delta = 0
        \/ /\ propagation_delta < 0
           /\ arrival_time_delta <= BURST_DELTA_THRESHOLD
           /\ arrival_time - cur.first_arrival < MAX_BURST_DURATION

new_timestamp_group(self, arrival_time, send_time) ==
    IF \/ is_first_packet(self.current_timestamp_group)
       \/ belongs_to_burst(self, arrival_time, send_time)
    THEN FALSE
    ELSE send_time - self.current_timestamp_group.first_send_time
            > self.send_time_group_length

\* The packet was sent before the first packet of the current group.
is_reordered_packet_never(self, send_time) == FALSE

is_reordered_packet(self, send_time) ==
    self.current_timestamp_group.first_send_time > send_time

\* Variant: the reset waits for one more reordered group.
reordered_reset_late(count) == count >= REORDERED_RESET_THRESHOLD + 1

\* The count of reordered groups in a row has reached the threshold.
reordered_reset_early(count) == count >= REORDERED_RESET_THRESHOLD - 1

reordered_reset(count) == count >= REORDERED_RESET_THRESHOLD

\* The previously closed group exists.
prev_group_complete_always(self) == TRUE

prev_group_complete(self) == is_finite(self.prev_timestamp_group.complete_time)

\* Variant: the group takes the send time of its latest packet.
joined_send_time_latest(group_send_time, send_time) == send_time

\* The send time of the current group after a packet joins it.
joined_send_time(group_send_time, send_time) == Max(group_send_time, send_time)

\* The tail of compute_deltas: the packet is accumulated into the current group.
accumulate(self, arrival_time, system_time, packet_size) ==
    [self EXCEPT !.current_timestamp_group.size = @ + packet_size,
                 !.current_timestamp_group.complete_time = arrival_time,
                 !.current_timestamp_group.last_system_time = system_time]

\* The packet starts a new current group; the old one becomes the previous.
start_group(self, send_time, arrival_time) ==
    [self EXCEPT !.prev_timestamp_group = self.current_timestamp_group,
                 !.current_timestamp_group.first_send_time = send_time,
                 !.current_timestamp_group.send_time = send_time,
                 !.current_timestamp_group.first_arrival = arrival_time,
                 !.current_timestamp_group.size = 0]

\* What a call returns and writes through its three output references
\* (a delta the call does not write is reported as 0).
Deltas(calculated_deltas, send_time_delta, arrival_time_delta, size_delta, branch, panics) ==
    [calculated_deltas |-> calculated_deltas,
     send_time_delta |-> send_time_delta,
     arrival_time_delta |-> arrival_time_delta,
     packet_size_delta |-> size_delta,
     branch |-> branch,
     panics |-> panics]

\* compute_deltas: the grouper after the call and what the call returns.
\* branch names the arm executed; panics is the overflow of the usize
\* subtraction of the group sizes where overflow is checked.
compute_deltas(self, send_time, arrival_time, system_time, packet_size) ==
    LET cur == self.current_timestamp_group
        prev == self.prev_timestamp_group
        send_time_delta == cur.send_time - prev.send_time
        arrival_time_delta == cur.complete_time - prev.complete_time
        system_time_delta == cur.last_system_time - prev.last_system_time
        reordered == self.num_consecutive_reordered_packets + 1
    IN  IF is_first_packet(cur)
        THEN [self |-> accumulate([self EXCEPT
                                      !.current_timestamp_group.send_time = send_time,
                                      !.current_timestamp_group.first_send_time = send_time,
                                      !.current_timestamp_group.first_arrival = arrival_time],
                                  arrival_time, system_time, packet_size),
              out |-> Deltas(FALSE, 0, 0, 0, "first_packet", FALSE)]
        ELSE IF is_reordered_packet(self, send_time)
        THEN [self |-> self, out |-> Deltas(FALSE, 0, 0, 0, "reordered_packet", FALSE)]
        ELSE IF new_timestamp_group(self, arrival_time, send_time)
        THEN IF prev_group_complete(self)
             THEN IF arrival_time_delta - system_time_delta >= ARRIVAL_TIME_OFFSET_THRESHOLD
                  THEN [self |-> reset(self),
                        out |-> Deltas(FALSE, send_time_delta, arrival_time_delta, 0,
                                       "clock_jump", FALSE)]
                  ELSE IF arrival_time_delta < 0
                  THEN [self |-> IF reordered_reset(reordered)
                                 THEN reset(self)
                                 ELSE [self EXCEPT
                                          !.num_consecutive_reordered_packets = reordered],
                        out |-> Deltas(FALSE, send_time_delta, arrival_time_delta, 0,
                                       "reordered_group", FALSE)]
                  ELSE [self |-> accumulate(
                                    start_group([self EXCEPT
                                                    !.num_consecutive_reordered_packets = 0],
                                                send_time, arrival_time),
                                    arrival_time, system_time, packet_size),
                        out |-> Deltas(TRUE, send_time_delta, arrival_time_delta,
                                       cur.size - prev.size, "emit",
                                       cur.size < prev.size)]
             ELSE [self |-> accumulate(start_group(self, send_time, arrival_time),
                                       arrival_time, system_time, packet_size),
                   out |-> Deltas(FALSE, 0, 0, 0, "first_group_closed", FALSE)]
        ELSE [self |-> accumulate([self EXCEPT !.current_timestamp_group.send_time =
                                                  joined_send_time(cur.send_time, send_time)],
                                  arrival_time, system_time, packet_size),
              out |-> Deltas(FALSE, 0, 0, 0, "joined", FALSE)]

\* The group length the grouper of the other specifications is built with.
DefaultSendTimeGroupLength == 5000

(***************************************************************************)
(* f64 quantities of trendline_estimator.rs.                               *)
(* A finite value is held in fixed point, in units of 1/FloatScale, and    *)
(* products and quotients are rounded toward zero.  The finite range ends  *)
(* at FloatMax, the stand-in for f64::MAX: a result beyond it is an        *)
(* infinity, and infinity - infinity, 0 * infinity, 0 / 0 and              *)
(* infinity / infinity are NaN, as in IEEE 754.  Every comparison with a   *)
(* NaN is false.                                                           *)
(***************************************************************************)
FloatScale == 1000
FloatMax == 10000000
F_INFINITY == 1000000000
F_NEG_INFINITY == -1000000000
F_NAN == 2000000000

f_is_nan(a) == a = F_NAN
f_is_finite(a) == a # F_NAN /\ a # F_INFINITY /\ a # F_NEG_INFINITY

\* The f64 nearest to the exact value x (in units of 1/FloatScale).
f_round(x) ==
    IF x > FloatMax THEN F_INFINITY
    ELSE IF x < -FloatMax THEN F_NEG_INFINITY
    ELSE x

\* n as f64, for an integer n.
f_from_int(n) ==
    IF n > FloatMax \div FloatScale THEN F_INFINITY
    ELSE IF n < -(FloatMax \div FloatScale) THEN F_NEG_INFINITY
    ELSE n * FloatScale

f_neg(a) ==
    IF a = F_NAN THEN F_NAN
    ELSE IF a = F_INFINITY THEN F_NEG_INFINITY
    ELSE IF a = F_NEG_INFINITY THEN F_INFINITY
    ELSE -a

f_abs(a) == IF a = F_NAN THEN F_NAN ELSE IF a < 0 THEN f_neg(a) ELSE a

f_add(a, b) ==
    IF a = F_NAN \/ b = F_NAN THEN F_NAN
    ELSE IF ~f_is_finite(a) THEN (IF f_is_finite(b) \/ a = b THEN a ELSE F_NAN)
    ELSE IF ~f_is_finite(b) THEN b
    ELSE f_round(a + b)

f_sub(a, b) == f_add(a, f_neg(b))

f_sign(a) == IF a < 0 THEN -1 ELSE 1

f_magnitude(a) == IF a < 0 THEN -a ELSE a

\* The infinity of the sign of a * b.
f_signed_infinity(a, b) ==
    IF f_sign(a) * f_sign(b) < 0 THEN F_NEG_INFINITY ELSE F_INFINITY

\* |a| * |b| / n for finite a and b, saturated above FloatMax.
f_muldiv(a, b, n) == f_sign(a) * f_sign(b) * MulDiv(f_magnitude(a), f_magnitude(b), 0, n)

f_mul(a, b) ==
    IF a = F_NAN \/ b = F_NAN THEN F_NAN
    ELSE IF ~f_is_finite(a) \/ ~f_is_finite(b)
    THEN (IF a = 0 \/ b = 0 THEN F_NAN ELSE f_signed_infinity(a, b))
    ELSE f_round(f_muldiv(a, b, FloatScale))

f_div(a, b) ==
    IF a = F_NAN \/ b = F_NAN THEN F_NAN
    ELSE IF ~f_is_finite(a)
    THEN (IF ~f_is_finite(b) THEN F_NAN ELSE f_signed_infinity(a, b))
    ELSE IF ~f_is_finite(b) THEN 0
    ELSE IF b = 0 THEN (IF a = 0 THEN F_NAN ELSE f_signed_infinity(a, 1))
    ELSE f_round(f_muldiv(a, FloatScale, f_magnitude(b)) * f_sign(b))

\* a * (num / den), for a constant num / den >= 0 of the source.
f_mul_ratio(a, num, den) ==
    IF f_is_finite(a) THEN f_round(f_muldiv(a, num, den))
    ELSE IF num = 0 /\ a # F_NAN THEN F_NAN
    ELSE a

f_lt(a, b) == a # F_NAN /\ b # F_NAN /\ a < b
f_gt(a, b) == f_lt(b, a)
f_ge(a, b) == a # F_NAN /\ b # F_NAN /\ a >= b

\* f64::clamp: a NaN is returned as it is.
f_clamp(a, lo, hi) == IF f_lt(a, lo) THEN lo ELSE IF f_gt(a, hi) THEN hi ELSE a

(***************************************************************************)
(* trendline_estimator.rs.  The estimator is built without a               *)
(* NetworkStatePredictor, so state() is the hypothesis.                    *)
(***************************************************************************)
MAX_ADAPT_OFFSET_MS == 15
OVER_USING_TIME_THRESHOLD == 10
MIN_NUM_DELTAS == 60
DELTA_COUNTER_MAX == 1000
DEFAULT_TRENDLINE_WINDOW_SIZE == 20
DEFAULT_TRENDLINE_THRESHOLD_GAIN == 4
TIME_OVER_USING_UNDEFINED == -1000
MAX_TIME_DELTA_MS == 100
INITIAL_THRESHOLD == 12500
MIN_THRESHOLD == 6000
MAX_THRESHOLD == 600000

TrendlineEstimatorSettings_default ==
    [enable_sort |-> FALSE,
     enable_cap |-> FALSE,
     beginning_packets |-> 7,
     end_packets |-> 7,
     cap_uncertainty |-> 0,
     window_size |-> DEFAULT_TRENDLINE_WINDOW_SIZE]

PacketTiming_new(arrival_time_ms, smoothed_delay_ms, raw_delay_ms) ==
    [arrival_time_ms |-> arrival_time_ms,
     smoothed_delay_ms |-> smoothed_delay_ms,
     raw_delay_ms |-> raw_delay_ms]

TrendlineEstimator_new(settings) ==
    [settings |-> settings,
     num_of_deltas |-> 0,
     first_arrival_time_ms |-> -1,
     accumulated_delay |-> 0,
     smoothed_delay |-> 0,
     delay_hist |-> <<>>,
     threshold |-> INITIAL_THRESHOLD,
     prev_modified_trend |-> F_NAN,
     last_update_ms |-> -1,
     prev_trend |-> 0,
     time_over_using |-> TIME_OVER_USING_UNDEFINED,
     overuse_counter |-> 0,
     hypothesis |-> "Normal"]

trendline_state(self) == self.hypothesis

\* The sum of the arrival times / smoothed delays of the first n packets.
RECURSIVE sum_x(_, _)
sum_x(packets, n) ==
    IF n = 0 THEN 0 ELSE f_add(sum_x(packets, n - 1), packets[n].arrival_time_ms)

RECURSIVE sum_y(_, _)
sum_y(packets, n) ==
    IF n = 0 THEN 0 ELSE f_add(sum_y(packets, n - 1), packets[n].smoothed_delay_ms)

\* sum (x_i - x_avg)(y_i - y_avg) over the first n packets.
RECURSIVE fit_numerator(_, _, _, _)
fit_numerator(packets, n, x_avg, y_avg) ==
    IF n = 0 THEN 0
    ELSE f_add(fit_numerator(packets, n - 1, x_avg, y_avg),
               f_mul(f_sub(packets[n].arrival_time_ms, x_avg),
                     f_sub(packets[n].smoothed_delay_ms, y_avg)))

\* sum (x_i - x_avg)^2 over the first n packets.
RECURSIVE fit_denominator(_, _, _)
fit_denominator(packets, n, x_avg) ==
    IF n = 0 THEN 0
    ELSE f_add(fit_denominator(packets, n - 1, x_avg),
               f_mul(f_sub(packets[n].arrival_time_ms, x_avg),
                     f_sub(packets[n].arrival_time_ms, x_avg)))

linear_fit_slope(packets) ==
    LET len == f_from_int(Len(packets))
        x_avg == f_div(sum_x(packets, Len(packets)), len)
        y_avg == f_div(sum_y(packets, Len(packets)), len)
        numerator == fit_numerator(packets, Len(packets), x_avg, y_avg)
        denominator == fit_denominator(packets, Len(packets), x_avg)
    IN  IF denominator = 0 THEN None ELSE Some(f_div(numerator, denominator))

\* The packet of the least raw delay among packets[from..to], the earliest
\* of them when several share it.
RECURSIVE min_raw_delay(_, _, _)
min_raw_delay(packets, from, to) ==
    IF to = from THEN packets[from]
    ELSE LET m == min_raw_delay(packets, from, to - 1)
         IN  IF f_lt(packets[to].raw_delay_ms, m.raw_delay_ms) THEN packets[to] ELSE m

\* The debug assertions of compute_slope_cap on the settings.
slope_cap_asserts_fail(packets, settings) ==
    \/ settings.beginning_packets < 1
    \/ settings.beginning_packets >= Len(packets)
    \/ settings.end_packets < 1
    \/ settings.end_packets >= Len(packets)
    \/ settings.beginning_packets + settings.end_packets > Len(packets)

compute_slope_cap(packets, settings) ==
    LET early == min_raw_delay(packets, 1, settings.beginning_packets)
        late == min_raw_delay(packets, Len(packets) - settings.end_packets + 1, Len(packets))
        span == f_sub(late.arrival_time_ms, early.arrival_time_ms)
    IN  IF f_lt(span, FloatScale) THEN None
        ELSE Some(f_add(f_div(f_sub(late.raw_delay_ms, early.raw_delay_ms), span),
                        settings.cap_uncertainty))

\* f64::clamp(threshold, 6.0, 600.0)
clamp_threshold_none(threshold) == threshold

clamp_threshold(threshold) == f_clamp(threshold, MIN_THRESHOLD, MAX_THRESHOLD)

update_threshold(self, modified_trend, now_ms) ==
    LET last_update_ms == IF self.last_update_ms = -1 THEN now_ms ELSE self.last_update_ms
        magnitude == f_abs(modified_trend)
        k_times_diff == IF f_lt(magnitude, self.threshold)
                        THEN f_mul_ratio(f_sub(magnitude, self.threshold), 39, 1000)
                        ELSE f_mul_ratio(f_sub(magnitude, self.threshold), 87, 10000)
        time_delta_ms == Min(now_ms - last_update_ms, MAX_TIME_DELTA_MS)
    IN  IF f_gt(magnitude, f_add(self.threshold, f_from_int(MAX_ADAPT_OFFSET_MS)))
        THEN [self EXCEPT !.last_update_ms = now_ms]
        ELSE [self EXCEPT
                 !.threshold = clamp_threshold(
                     f_add(self.threshold, f_mul(k_times_diff, f_from_int(time_delta_ms)))),
                 !.last_update_ms = now_ms]

\* The hypothesis needs this many deltas before it can leave Normal.
too_few_deltas(num_of_deltas) == num_of_deltas < 2

\* The arm of detect taken on a modified trend.
detect_arm(self, modified_trend) ==
    IF f_gt(modified_trend, self.threshold) THEN "above"
    ELSE IF f_lt(modified_trend, f_neg(self.threshold)) THEN "below"
    ELSE "within"

modified_trend_of(self, trend) ==
    f_mul(f_mul(f_from_int(Min(self.num_of_deltas, MIN_NUM_DELTAS)), trend),
          f_from_int(DEFAULT_TRENDLINE_THRESHOLD_GAIN))

\* Variant: one sample above the threshold is enough.
overuse_confirmed_at_once(time_over_using, overuse_counter, trend, prev_trend) ==
    /\ f_gt(time_over_using, f_from_int(OVER_USING_TIME_THRESHOLD))
    /\ f_ge(trend, prev_trend)

\* The over-use is confirmed: long enough, seen more than once, not easing.
overuse_confirmed(time_over_using, overuse_counter, trend, prev_trend) ==
    /\ f_gt(time_over_using, f_from_int(OVER_USING_TIME_THRESHOLD))
    /\ overuse_counter > 1
    /\ f_ge(trend, prev_trend)

detect(self, trend, ts_delta, now_ms) ==
    IF too_few_deltas(self.num_of_deltas)
    THEN [self EXCEPT !.hypothesis = "Normal"]
    ELSE
    LET modified_trend == modified_trend_of(self, trend)
        arm == detect_arm(self, modified_trend)
        time_over_using == IF self.time_over_using = TIME_OVER_USING_UNDEFINED
                           THEN f_mul_ratio(ts_delta, 1, 2)
                           ELSE f_add(self.time_over_using, ts_delta)
        overuse_counter == self.overuse_counter + 1
        s1 == [self EXCEPT !.prev_modified_trend = modified_trend]
        s2 == IF arm = "above"
              THEN IF overuse_confirmed(time_over_using, overuse_counter, trend,
                                        self.prev_trend)
                   THEN [s1 EXCEPT !.time_over_using = 0,
                                   !.overuse_counter = 0,
                                   !.hypothesis = "Overusing"]
                   ELSE [s1 EXCEPT !.time_over_using = time_over_using,
                                   !.overuse_counter = overuse_counter]
              ELSE [s1 EXCEPT !.time_over_using = TIME_OVER_USING_UNDEFINED,
                              !.overuse_counter = 0,
                              !.hypothesis = IF arm = "below" THEN "Underusing"
                                             ELSE "Normal"]
    IN  update_threshold([s2 EXCEPT !.prev_trend = trend], modified_trend, now_ms)

\* The new last entry moved toward the front while the entry before it has a
\* later arrival time.
RECURSIVE sort_last(_, _)
sort_last(hist, i) ==
    IF i > 1 /\ f_lt(hist[i].arrival_time_ms, hist[i - 1].arrival_time_ms)
    THEN sort_last([hist EXCEPT ![i] = hist[i - 1], ![i - 1] = hist[i]], i - 1)
    ELSE hist

\* The window holds more entries than window_size.
window_overfull_by_two(hist, window_size) == Len(hist) > window_size + 1

window_overfull(hist, window_size) == Len(hist) > window_size

\* The count of deltas, saturated.
saturate_deltas_none(n) == n

saturate_deltas(n) == Min(n, DELTA_COUNTER_MAX)

\* The trend the window gives, or the previous one.
window_trend(self, hist) ==
    IF Len(hist) = self.settings.window_size
    THEN LET fit == linear_fit_slope(hist)
             trend == IF fit.some THEN fit.v ELSE self.prev_trend
             cap == compute_slope_cap(hist, self.settings)
         IN  IF self.settings.enable_cap /\ cap.some
                /\ f_ge(trend, 0) /\ f_gt(trend, cap.v)
             THEN cap.v
             ELSE trend
    ELSE self.prev_trend

\* The debug assertions of linear_fit_slope and compute_slope_cap fail.
window_trend_panics(self, hist) ==
    /\ Len(hist) = self.settings.window_size
    /\ \/ Len(hist) < 2
       \/ self.settings.enable_cap /\ slope_cap_asserts_fail(hist, self.settings)

\* The window after the new entry is pushed, sorted in and the front evicted.
window_after(self, entry) ==
    LET pushed == Append(self.delay_hist, entry)
        sorted == IF self.settings.enable_sort THEN sort_last(pushed, Len(pushed))
                  ELSE pushed
    IN  IF window_overfull(sorted, self.settings.window_size) THEN Tail(sorted)
        ELSE sorted

update_trendline(self, recv_delta_ms, send_delta_ms, arrival_time_ms) ==
    LET delta_ms == f_sub(recv_delta_ms, send_delta_ms)
        first_arrival_time_ms == IF self.first_arrival_time_ms = -1 THEN arrival_time_ms
                                 ELSE self.first_arrival_time_ms
        accumulated_delay == f_add(self.accumulated_delay, delta_ms)
        smoothed_delay == f_add(f_mul_ratio(self.smoothed_delay, 9, 10),
                                f_mul_ratio(accumulated_delay, 1, 10))
        hist == window_after(self,
                    PacketTiming_new(f_from_int(arrival_time_ms - first_arrival_time_ms),
                                     smoothed_delay, accumulated_delay))
        s1 == [self EXCEPT !.num_of_deltas = saturate_deltas(self.num_of_deltas + 1),
                           !.first_arrival_time_ms = first_arrival_time_ms,
                           !.accumulated_delay = accumulated_delay,
                           !.smoothed_delay = smoothed_delay,
                           !.delay_hist = hist]
    IN  detect(s1, window_trend(self, hist), send_delta_ms, arrival_time_ms)

trendline_update(self, recv_delta_ms, send_delta_ms, arrival_time_ms, calculated_deltas) ==
    IF calculated_deltas
    THEN update_trendline(self, recv_delta_ms, send_delta_ms, arrival_time_ms)
    ELSE self

(***************************************************************************)
(* The controller driven by its owner: one action per public operation.   *)
(*   aimd  the AimdRateControl                                             *)
(*   now   the latest at_time the caller has passed (callers feed          *)
(*         non-decreasing times)                                           *)
(*   calls the number of public calls made so far                          *)
(*   last  the latest call: its name, arguments, the controller as it was  *)
(*         when the call started and, for update, the arm of change_bitrate*)
(*         it executed                                                     *)
(*   inter_arrival  the InterArrivalDelta                                  *)
(*   link_capacity  a LinkCapacityEstimator driven on its own              *)
(*   trendline  a TrendlineEstimator                                       *)
(***************************************************************************)
VARIABLES aimd, now, calls, last, inter_arrival, link_capacity, trendline

vars == <<aimd, now, calls, last, inter_arrival, link_capacity, trendline>>

\* Bounds of the exploration.
MaxCalls == 3
MaxTimeSeconds == 11

BandwidthUsage == {"Normal", "Underusing", "Overusing"}
RateControlState == {"Hold", "Increase", "Decrease"}

\* Argument values the caller draws from.
ThroughputInputs == {None, Some(10000), Some(40000)}
EstimateInputs == {6000, 20000, 40000000}
StartBitrateInputs == {0, 20000}
MinBitrateInputs == {30000}
RttInputs == {100000}
TimeSteps == {0, 5000000, 6000000}
NetworkStateEstimateInputs ==
    {NoNetworkStateEstimate,
     Some([NetworkStateEstimate_default EXCEPT !.link_capacity_upper = 15000]),
     Some([NetworkStateEstimate_default EXCEPT !.link_capacity_lower = 12000])}
\* (config, send_side) pairs the controller is constructed with.
ConstructorInputs ==
    {<<AimdRateControlConfig_default, FALSE>>,
     <<[AimdRateControlConfig_default EXCEPT !.no_bitrate_increase_in_alr = TRUE], TRUE>>,
     <<[AimdRateControlConfig_default EXCEPT
            !.use_current_estimate_as_min_upper_bound = FALSE], TRUE>>}

RateControlInput_new(bw_state, estimated_throughput) ==
    [bw_state |-> bw_state, estimated_throughput |-> estimated_throughput]

NoInput == RateControlInput_new("Normal", None)

Called(op, input, arg, at_time) ==
    [op |-> op, input |-> input, arg |-> arg, at_time |-> at_time, prev |-> aimd,
     branch |-> IF op = "update" THEN executed_branch(aimd, input, at_time) ELSE "None",
     panics |-> op = "update" /\ update_panics(aimd, input, at_time)]

Init ==
    /\ \E c \in ConstructorInputs : aimd = AimdRateControl_new(c[1], c[2])
    /\ now = 0
    /\ calls = 0
    /\ inter_arrival = InterArrivalDelta_new(DefaultSendTimeGroupLength)
    /\ trendline = TrendlineEstimator_new(TrendlineEstimatorSettings_default)
    /\ link_capacity = LinkCapacityEstimator_new
    /\ last = [op |-> "new", input |-> NoInput, arg |-> 0, at_time |-> 0, prev |-> aimd,
               branch |-> "None", panics |-> FALSE]

SetStartBitrate ==
    /\ calls < MaxCalls
    /\ \E r \in StartBitrateInputs :
          /\ aimd' = set_start_bitrate(aimd, r)
          /\ last' = Called("set_start_bitrate", NoInput, r, now)
    /\ calls' = calls + 1
    /\ UNCHANGED <<inter_arrival, link_capacity, trendline>>
    /\ UNCHANGED now

SetMinBitrate ==
    /\ calls < MaxCalls
    /\ \E r \in MinBitrateInputs :
          /\ aimd' = set_min_bitrate(aimd, r)
          /\ last' = Called("set_min_bitrate", NoInput, r, now)
    /\ calls' = calls + 1
    /\ UNCHANGED <<inter_arrival, link_capacity, trendline>>
    /\ UNCHANGED now

SetRtt ==
    /\ calls < MaxCalls
    /\ \E r \in RttInputs :
          /\ aimd' = set_rtt(aimd, r)
          /\ last' = Called("set_rtt", NoInput, r, now)
    /\ calls' = calls + 1
    /\ UNCHANGED <<inter_arrival, link_capacity, trendline>>
    /\ UNCHANGED now

SetInApplicationLimitedRegion ==
    /\ calls < MaxCalls
    /\ \E b \in BOOLEAN :
          /\ aimd' = set_in_application_limited_region(aimd, b)
          /\ last' = Called("set_in_application_limited_region", NoInput,
                            IF b THEN 1 ELSE 0, now)
    /\ calls' = calls + 1
    /\ UNCHANGED <<inter_arrival, link_capacity, trendline>>
    /\ UNCHANGED now

SetNetworkStateEstimate ==
    /\ calls < MaxCalls
    /\ \E e \in NetworkStateEstimateInputs :
          /\ aimd' = set_network_state_estimate(aimd, e)
          /\ last' = Called("set_network_state_estimate", NoInput, 0, now)
    /\ calls' = calls + 1
    /\ UNCHANGED <<inter_arrival, link_capacity, trendline>>
    /\ UNCHANGED now

SetEstimate ==
    /\ calls < MaxCalls
    /\ \E r \in EstimateInputs, d \in TimeSteps :
          /\ now + d <= MaxTimeSeconds * 1000000
          /\ aimd' = set_estimate(aimd, r, now + d)
          /\ last' = Called("set_estimate", NoInput, r, now + d)
          /\ now' = now + d
    /\ calls' = calls + 1
    /\ UNCHANGED <<inter_arrival, link_capacity, trendline>>

Update ==
    /\ calls < MaxCalls
    /\ \E bw_state \in BandwidthUsage, thr \in ThroughputInputs, d \in TimeSteps :
          LET input == RateControlInput_new(bw_state, thr) IN
          /\ now + d <= MaxTimeSeconds * 1000000
          /\ aimd' = update(aimd, input, now + d)
          /\ last' = Called("update", input, 0, now + d)
          /\ now' = now + d
    /\ calls' = calls + 1
    /\ UNCHANGED <<inter_arrival, link_capacity, trendline>>

Next ==
    \/ SetStartBitrate
    \/ SetMinBitrate
    \/ SetRtt
    \/ SetInApplicationLimitedRegion
    \/ SetNetworkStateEstimate
    \/ SetEstimate
    \/ Update

Spec == Init /\ [][Next]_vars

(***************************************************************************)
(* The same caller on a send-side controller configured with               *)
(* no_bitrate_increase_in_alr that has entered the application limited     *)
(* region, as in tests::estimate_does_not_increase_in_alr.                 *)
(***************************************************************************)
AlrConstructorInputs ==
    {[AimdRateControlConfig_default EXCEPT !.no_bitrate_increase_in_alr = TRUE],
     [AimdRateControlConfig_default EXCEPT
         !.no_bitrate_increase_in_alr = TRUE,
         !.use_current_estimate_as_min_upper_bound = FALSE]}

InitAlr ==
    /\ \E c \in AlrConstructorInputs :
          aimd = set_in_application_limited_region(AimdRateControl_new(c, TRUE), TRUE)
    /\ now = 0
    /\ calls = 0
    /\ inter_arrival = InterArrivalDelta_new(DefaultSendTimeGroupLength)
    /\ trendline = TrendlineEstimator_new(TrendlineEstimatorSettings_default)
    /\ link_capacity = LinkCapacityEstimator_new
    /\ last = [op |-> "set_in_application_limited_region", input |-> NoInput, arg |-> 1,
               at_time |-> 0, prev |-> aimd, branch |-> "None", panics |-> FALSE]

SpecAlr == InitAlr /\ [][Next]_vars

(***************************************************************************)
(* The caller of the set_estimate_*_network_estimate tests: estimates set  *)
(* against installed network state estimates, for each of the             *)
(* configurations clamp_bitrate reads.                                     *)
(***************************************************************************)
ClampConstructorInputs ==
    {AimdRateControlConfig_default,
     [AimdRateControlConfig_default EXCEPT
         !.use_current_estimate_as_min_upper_bound = FALSE],
     [AimdRateControlConfig_default EXCEPT !.disable_estimate_bounded_increase = TRUE]}

ClampEstimateInputs == {6000, 8000, 20000, 40000}

ClampNetworkStateEstimateInputs ==
    {NoNetworkStateEstimate,
     Some([NetworkStateEstimate_default EXCEPT !.link_capacity_upper = 15000]),
     Some([NetworkStateEstimate_default EXCEPT !.link_capacity_lower = 12000]),
     Some([link_capacity_lower |-> 12000, link_capacity_upper |-> 15000])}

InitClamp ==
    /\ \E c \in ClampConstructorInputs : aimd = AimdRateControl_new(c, TRUE)
    /\ now = 0
    /\ calls = 0
    /\ inter_arrival = InterArrivalDelta_new(DefaultSendTimeGroupLength)
    /\ trendline = TrendlineEstimator_new(TrendlineEstimatorSettings_default)
    /\ link_capacity = LinkCapacityEstimator_new
    /\ last = [op |-> "new", input |-> NoInput, arg |-> 0, at_time |-> 0, prev |-> aimd,
               branch |-> "None", panics |-> FALSE]

ClampSetEstimate ==
    /\ calls < MaxCalls
    /\ \E r \in ClampEstimateInputs :
          /\ aimd' = set_estimate(aimd, r, now)
          /\ last' = Called("set_estimate", NoInput, r, now)
    /\ calls' = calls + 1
    /\ UNCHANGED <<inter_arrival, link_capacity, trendline>>
    /\ UNCHANGED now

ClampSetNetworkStateEstimate ==
    /\ calls < MaxCalls
    /\ \E e \in ClampNetworkStateEstimateInputs :
          /\ aimd' = set_network_state_estimate(aimd, e)
          /\ last' = Called("set_network_state_estimate", NoInput, 0, now)
    /\ calls' = calls + 1
    /\ UNCHANGED <<inter_arrival, link_capacity, trendline>>
    /\ UNCHANGED now

NextClamp ==
    \/ ClampSetEstimate
    \/ ClampSetNetworkStateEstimate
    \/ SetMinBitrate
    \/ Update

SpecClamp == InitClamp /\ [][NextClamp]_vars

(***************************************************************************)
(* The caller of the bandwidth period tests: an estimate is set, over-use  *)
(* follows 100 ms later, and the getters are read in every state.          *)
(***************************************************************************)
PeriodEstimateInputs == {10000, 19000, 264000, 10010000}
PeriodThroughputInputs == {Some(9999), Some(10000), Some(260000)}
PeriodSteps == {0, 100000}

InitPeriod ==
    /\ aimd = AimdRateControl_new(AimdRateControlConfig_default, FALSE)
    /\ now = 0
    /\ calls = 0
    /\ inter_arrival = InterArrivalDelta_new(DefaultSendTimeGroupLength)
    /\ trendline = TrendlineEstimator_new(TrendlineEstimatorSettings_default)
    /\ link_capacity = LinkCapacityEstimator_new
    /\ last = [op |-> "new", input |-> NoInput, arg |-> 0, at_time |-> 0, prev |-> aimd,
               branch |-> "None", panics |-> FALSE]

PeriodSetEstimate ==
    /\ calls < MaxCalls
    /\ \E r \in PeriodEstimateInputs :
          /\ aimd' = set_estimate(aimd, r, now)
          /\ last' = Called("set_estimate", NoInput, r, now)
    /\ calls' = calls + 1
    /\ UNCHANGED <<inter_arrival, link_capacity, trendline>>
    /\ UNCHANGED now

PeriodUpdate ==
    /\ calls < MaxCalls
    /\ \E bw_state \in BandwidthUsage, thr \in PeriodThroughputInputs, d \in PeriodSteps :
          LET input == RateControlInput_new(bw_state, thr) IN
          /\ aimd' = update(aimd, input, now + d)
          /\ last' = Called("update", input, 0, now + d)
          /\ now' = now + d
    /\ calls' = calls + 1
    /\ UNCHANGED <<inter_arrival, link_capacity, trendline>>

NextPeriod ==
    \/ PeriodSetEstimate
    \/ PeriodUpdate
    \/ SetStartBitrate
    \/ SetRtt

SpecPeriod == InitPeriod /\ [][NextPeriod]_vars

(***************************************************************************)
(* The caller of the decrease tests: the controller is built with or       *)
(* without the additional backoff term, an estimate is set and over-use    *)
(* with an acknowledged rate follows.                                      *)
(***************************************************************************)
DecreaseConstructorInputs ==
    {<<AimdRateControlConfig_default, FALSE>>,
     <<[AimdRateControlConfig_default EXCEPT
            !.subtract_additional_backoff_term = FALSE], FALSE>>}

InitDecrease ==
    /\ \E c \in DecreaseConstructorInputs : aimd = AimdRateControl_new(c[1], c[2])
    /\ now = 0
    /\ calls = 0
    /\ inter_arrival = InterArrivalDelta_new(DefaultSendTimeGroupLength)
    /\ trendline = TrendlineEstimator_new(TrendlineEstimatorSettings_default)
    /\ link_capacity = LinkCapacityEstimator_new
    /\ last = [op |-> "new", input |-> NoInput, arg |-> 0, at_time |-> 0, prev |-> aimd,
               branch |-> "None", panics |-> FALSE]

NextDecrease ==
    \/ PeriodSetEstimate
    \/ PeriodUpdate

SpecDecrease == InitDecrease /\ [][NextDecrease]_vars

(***************************************************************************)
(* The arithmetic of time.rs and data_rate.rs on the raw i64 values, at a  *)
(* width of ArithBits bits instead of 64: ArithMax and ArithMin stand for  *)
(* i64::MAX and i64::MIN, the two infinities.  An operation the source     *)
(* writes with a plain + or - panics on overflow where overflow is checked *)
(* and wraps modulo 2^ArithBits elsewhere: both outcomes are kept.         *)
(* In this specification `last` holds the operation applied, its operands  *)
(* and its outcome; the controller is not touched.                         *)
(***************************************************************************)
ArithBits == 8
ArithModulus == 2 ^ ArithBits
ArithMax == 2 ^ (ArithBits - 1) - 1
ArithMin == 0 - 2 ^ (ArithBits - 1)

ArithValues == {ArithMin, ArithMin + 1, -2, -1, 0, 1, 2, ArithMax - 1, ArithMax}

arith_is_infinite(x) == x = ArithMax \/ x = ArithMin

wrapping(x) == ((x - ArithMin) % ArithModulus) + ArithMin

\* The outcomes of a plain i64 + or - whose exact result is x.
plain_outcomes(x) ==
    IF x >= ArithMin /\ x <= ArithMax
    THEN {[panics |-> FALSE, v |-> x]}
    ELSE {[panics |-> TRUE, v |-> 0], [panics |-> FALSE, v |-> wrapping(x)]}

\* impl Add<TimeDelta> for Timestamp
timestamp_add_delta(a, b) ==
    IF a = ArithMax \/ b = ArithMax THEN {[panics |-> FALSE, v |-> ArithMax]}
    ELSE IF a = ArithMin \/ b = ArithMin THEN {[panics |-> FALSE, v |-> ArithMin]}
    ELSE plain_outcomes(a + b)

\* impl Sub<TimeDelta> for Timestamp
timestamp_sub_delta(a, b) ==
    IF a = ArithMax \/ b = ArithMin THEN {[panics |-> FALSE, v |-> ArithMax]}
    ELSE IF a = ArithMin \/ b = ArithMax THEN {[panics |-> FALSE, v |-> ArithMin]}
    ELSE plain_outcomes(a - b)

\* impl Sub<Timestamp> for Timestamp
timestamp_sub_timestamp(a, b) == plain_outcomes(a - b)

\* impl Add for TimeDelta
delta_add(a, b) == plain_outcomes(a + b)

\* impl Sub for TimeDelta
delta_sub(a, b) == plain_outcomes(a - b)

\* impl Add for DataRate
rate_add(a, b) == plain_outcomes(a + b)

\* impl Sub for DataRate
rate_sub(a, b) == plain_outcomes(a - b)

Applied(op, a, b, out) == [op |-> op, a |-> a, b |-> b, out |-> out]

InitArith ==
    /\ aimd = AimdRateControl_new(AimdRateControlConfig_default, FALSE)
    /\ now = 0
    /\ calls = 0
    /\ inter_arrival = InterArrivalDelta_new(DefaultSendTimeGroupLength)
    /\ trendline = TrendlineEstimator_new(TrendlineEstimatorSettings_default)
    /\ link_capacity = LinkCapacityEstimator_new
    /\ last = Applied("none", 0, 0, [panics |-> FALSE, v |-> 0])

TimestampAddDelta ==
    /\ \E a \in ArithValues, b \in ArithValues :
          \E out \in timestamp_add_delta(a, b) :
             last' = Applied("Timestamp + TimeDelta", a, b, out)
    /\ UNCHANGED <<aimd, now, calls, inter_arrival, link_capacity, trendline>>

TimestampSubDelta ==
    /\ \E a \in ArithValues, b \in ArithValues :
          \E out \in timestamp_sub_delta(a, b) :
             last' = Applied("Timestamp - TimeDelta", a, b, out)
    /\ UNCHANGED <<aimd, now, calls, inter_arrival, link_capacity, trendline>>

TimestampSubTimestamp ==
    /\ \E a \in ArithValues, b \in ArithValues :
          \E out \in timestamp_sub_timestamp(a, b) :
             last' = Applied("Timestamp - Timestamp", a, b, out)
    /\ UNCHANGED <<aimd, now, calls, inter_arrival, link_capacity, trendline>>

DeltaAdd ==
    /\ \E a \in ArithValues, b \in ArithValues :
          \E out \in delta_add(a, b) :
             last' = Applied("TimeDelta + TimeDelta", a, b, out)
    /\ UNCHANGED <<aimd, now, calls, inter_arrival, link_capacity, trendline>>

DeltaSub ==
    /\ \E a \in ArithValues, b \in ArithValues :
          \E out \in delta_sub(a, b) :
             last' = Applied("TimeDelta - TimeDelta", a, b, out)
    /\ UNCHANGED <<aimd, now, calls, inter_arrival, link_capacity, trendline>>

RateAdd ==
    /\ \E a \in ArithValues, b \in ArithValues :
          \E out \in rate_add(a, b) :
             last' = Applied("DataRate + DataRate", a, b, out)
    /\ UNCHANGED <<aimd, now, calls, inter_arrival, link_capacity, trendline>>

RateSub ==
    /\ \E a \in ArithValues, b \in ArithValues :
          \E out \in rate_sub(a, b) :
             last' = Applied("DataRate - DataRate", a, b, out)
    /\ UNCHANGED <<aimd, now, calls, inter_arrival, link_capacity, trendline>>

NextArith ==
    \/ TimestampAddDelta
    \/ TimestampSubDelta
    \/ TimestampSubTimestamp
    \/ DeltaAdd
    \/ DeltaSub
    \/ RateAdd
    \/ RateSub

SpecArith == InitArith /\ [][NextArith]_vars

(***************************************************************************)
(* The grouper fed with packets.  In this specification `last` holds the   *)
(* latest compute_deltas call: the packet, the grouper as it was when the  *)
(* call started, what the call returned, and the number of groups closed   *)
(* since the grouper was last in its initial state.                        *)
(***************************************************************************)
MaxPackets == 6

Packet(send_time, arrival_time, system_time, packet_size) ==
    [send_time |-> send_time, arrival_time |-> arrival_time,
     system_time |-> system_time, packet_size |-> packet_size]

\* The packets the caller draws from: in-order packets 10 ms apart, a
\* packet 2 ms after another, packets that arrive before an earlier one,
\* and packets whose arrival clock has jumped 4 s ahead of the system clock.
PacketInputs ==
    {Packet(0, 0, 0, 100),
     Packet(2000, 2000, 2000, 100),
     Packet(10000, 10000, 10000, 200),
     Packet(20000, 20000, 20000, 100),
     Packet(30000, 5000, 5000, 100),
     Packet(40000, 60000, 60000, 100),
     Packet(10000, 4010000, 10000, 100),
     Packet(40000, 4040000, 40000, 100)}

SendTimeGroupLengthInputs == {DefaultSendTimeGroupLength}

NoPacket == Packet(0, 0, 0, 0)

\* The number of groups closed since the grouper was last in its initial
\* state, after a call that executed `branch` and left the grouper as `self`.
groups_closed_after(count, branch, self) ==
    IF self = reset(self) THEN 0
    ELSE IF branch \in {"first_group_closed", "emit"} THEN count + 1
    ELSE count

Processed(packet, prev, result, count) ==
    [op |-> "compute_deltas", packet |-> packet, prev |-> prev, out |-> result.out,
     groups_closed |-> groups_closed_after(count, result.out.branch, result.self),
     groups_closed_before |-> count]

InitInterArrival ==
    /\ aimd = AimdRateControl_new(AimdRateControlConfig_default, FALSE)
    /\ now = 0
    /\ calls = 0
    /\ \E l \in SendTimeGroupLengthInputs : inter_arrival = InterArrivalDelta_new(l)
    /\ trendline = TrendlineEstimator_new(TrendlineEstimatorSettings_default)
    /\ link_capacity = LinkCapacityEstimator_new
    /\ last = [op |-> "new", packet |-> NoPacket, prev |-> inter_arrival,
               out |-> Deltas(FALSE, 0, 0, 0, "None", FALSE),
               groups_closed |-> 0, groups_closed_before |-> 0]

ComputeDeltas ==
    /\ calls < MaxPackets
    /\ \E p \in PacketInputs :
          LET result == compute_deltas(inter_arrival, p.send_time, p.arrival_time,
                                       p.system_time, p.packet_size)
          IN  /\ inter_arrival' = result.self
              /\ last' = Processed(p, inter_arrival, result, last.groups_closed)
    /\ calls' = calls + 1
    /\ UNCHANGED <<aimd, now, link_capacity, trendline>>

NextInterArrival == ComputeDeltas

SpecInterArrival == InitInterArrival /\ [][NextInterArrival]_vars

(***************************************************************************)
(* A LinkCapacityEstimator driven through its three mutating operations.   *)
(* In this specification `last` holds the latest call, its argument and    *)
(* the estimator as it was when the call started.                          *)
(***************************************************************************)
MaxLinkCalls == 4

\* Capacity samples, in bps.
CapacitySampleInputs == {0, 100000, 500000, 510000, 1000000}

LinkCalled(op, arg) == [op |-> op, arg |-> arg, prev |-> link_capacity]

InitLink ==
    /\ aimd = AimdRateControl_new(AimdRateControlConfig_default, FALSE)
    /\ now = 0
    /\ calls = 0
    /\ inter_arrival = InterArrivalDelta_new(DefaultSendTimeGroupLength)
    /\ trendline = TrendlineEstimator_new(TrendlineEstimatorSettings_default)
    /\ link_capacity = LinkCapacityEstimator_new
    /\ last = [op |-> "new", arg |-> 0, prev |-> link_capacity]

OnOveruseDetected ==
    /\ calls < MaxLinkCalls
    /\ \E r \in CapacitySampleInputs :
          /\ link_capacity' = on_overuse_detected(link_capacity, r)
          /\ last' = LinkCalled("on_overuse_detected", r)
    /\ calls' = calls + 1
    /\ UNCHANGED <<aimd, now, inter_arrival, trendline>>

OnProbeRate ==
    /\ calls < MaxLinkCalls
    /\ \E r \in CapacitySampleInputs :
          /\ link_capacity' = on_probe_rate(link_capacity, r)
          /\ last' = LinkCalled("on_probe_rate", r)
    /\ calls' = calls + 1
    /\ UNCHANGED <<aimd, now, inter_arrival, trendline>>

LinkReset ==
    /\ calls < MaxLinkCalls
    /\ link_capacity' = link_capacity_reset(link_capacity)
    /\ last' = LinkCalled("reset", 0)
    /\ calls' = calls + 1
    /\ UNCHANGED <<aimd, now, inter_arrival, trendline>>

NextLink ==
    \/ OnOveruseDetected
    \/ OnProbeRate
    \/ LinkReset

SpecLink == InitLink /\ [][NextLink]_vars

(***************************************************************************)
(* A TrendlineEstimator fed with samples.  In this specification `last`    *)
(* holds the latest update: the sample, the estimator as it was when the   *)
(* call started, the trend handed to detect and whether a debug assertion  *)
(* failed.  Arrival times are milliseconds; each sample gives the step     *)
(* from the previous arrival time.                                         *)
(***************************************************************************)
MaxSamples == 5

Sample(recv_delta_ms, send_delta_ms, arrival_step_ms, calculated_deltas) ==
    [recv_delta_ms |-> recv_delta_ms, send_delta_ms |-> send_delta_ms,
     arrival_step_ms |-> arrival_step_ms, calculated_deltas |-> calculated_deltas]

SteadySample == Sample(f_from_int(10), f_from_int(10), 10, TRUE)

\* Steady delivery, delivery 50 ms slower and 50 ms faster per sample, a
\* sample arriving at the same time and one arriving earlier than the one
\* before, a sample without deltas, and a delta at the end of the finite
\* range.
SampleInputs ==
    {SteadySample,
     Sample(f_from_int(60), f_from_int(10), 10, TRUE),
     Sample(f_from_int(10), f_from_int(60), 10, TRUE),
     Sample(f_from_int(10), f_from_int(10), 0, TRUE),
     Sample(f_from_int(10), f_from_int(10), -5, TRUE),
     Sample(f_from_int(10), f_from_int(10), 10, FALSE),
     Sample(FloatMax, 0, 10, TRUE)}

\* The settings the estimator is built with: a window of 2, and a window
\* of 3 with sorting and the slope cap.
TrendSettingsInputs ==
    {[TrendlineEstimatorSettings_default EXCEPT !.window_size = 2],
     [TrendlineEstimatorSettings_default EXCEPT
         !.window_size = 3, !.enable_sort = TRUE, !.enable_cap = TRUE,
         !.beginning_packets = 1, !.end_packets = 1]}

FirstArrivalTimeMs == 1000

\* The trend update_trendline hands to detect for this sample.
trend_for(self, sample, arrival_time_ms) ==
    window_trend(self, update_trendline(self, sample.recv_delta_ms, sample.send_delta_ms,
                                        arrival_time_ms).delay_hist)

Sampled(sample, arrival_time_ms) ==
    [op |-> "update", sample |-> sample, arrival_time_ms |-> arrival_time_ms,
     prev |-> trendline,
     trend |-> IF sample.calculated_deltas
               THEN trend_for(trendline, sample, arrival_time_ms)
               ELSE trendline.prev_trend,
     panics |-> sample.calculated_deltas
                /\ window_trend_panics(trendline,
                       update_trendline(trendline, sample.recv_delta_ms,
                                        sample.send_delta_ms, arrival_time_ms).delay_hist)]

NoSample == Sample(0, 0, 0, FALSE)

InitTrend ==
    /\ aimd = AimdRateControl_new(AimdRateControlConfig_default, FALSE)
    /\ now = 0
    /\ calls = 0
    /\ inter_arrival = InterArrivalDelta_new(DefaultSendTimeGroupLength)
    /\ link_capacity = LinkCapacityEstimator_new
    /\ \E settings \in TrendSettingsInputs : trendline = TrendlineEstimator_new(settings)
    /\ last = [op |-> "new", sample |-> NoSample, arrival_time_ms |-> FirstArrivalTimeMs,
               prev |-> trendline, trend |-> 0, panics |-> FALSE]

TrendUpdate ==
    /\ calls < MaxSamples
    /\ \E sample \in SampleInputs :
          LET arrival_time_ms == last.arrival_time_ms + sample.arrival_step_ms
          IN  /\ trendline' = trendline_update(trendline, sample.recv_delta_ms,
                                               sample.send_delta_ms, arrival_time_ms,
                                               sample.calculated_deltas)
              /\ last' = Sampled(sample, arrival_time_ms)
    /\ calls' = calls + 1
    /\ UNCHANGED <<aimd, now, inter_arrival, link_capacity>>

NextTrend == TrendUpdate

SpecTrend == InitTrend /\ [][NextTrend]_vars

(***************************************************************************)
(* A TrendlineEstimator fed for a long time: a few samples of any kind,    *)
(* then steady samples until more than DELTA_COUNTER_MAX have been fed.    *)
(***************************************************************************)
MaxLongSamples == 1003
LongPrefix == 1

LongFirst ==
    /\ calls < LongPrefix
    /\ \E sample \in SampleInputs :
          LET arrival_time_ms == last.arrival_time_ms + sample.arrival_step_ms
          IN  /\ trendline' = trendline_update(trendline, sample.recv_delta_ms,
                                               sample.send_delta_ms, arrival_time_ms,
                                               sample.calculated_deltas)
              /\ last' = Sampled(sample, arrival_time_ms)
    /\ calls' = calls + 1
    /\ UNCHANGED <<aimd, now, inter_arrival, link_capacity>>

LongSteady ==
    /\ calls >= LongPrefix
    /\ calls < MaxLongSamples
    /\ LET arrival_time_ms == last.arrival_time_ms + SteadySample.arrival_step_ms
       IN  /\ trendline' = trendline_update(trendline, SteadySample.recv_delta_ms,
                                            SteadySample.send_delta_ms, arrival_time_ms,
                                            SteadySample.calculated_deltas)
           /\ last' = Sampled(SteadySample, arrival_time_ms)
    /\ calls' = calls + 1
    /\ UNCHANGED <<aimd, now, inter_arrival, link_capacity>>

NextTrendLong ==
    \/ LongFirst
    \/ LongSteady

SpecTrendLong == InitTrend /\ [][NextTrendLong]_vars

(***************************************************************************)
(* A stream of Normal updates with a constant throughput, forever, as in   *)
(* tests::bwe_limited_by_acked_bitrate: the caller sets an estimate,       *)
(* possibly meets an over-use, and then calls update at strictly           *)
(* increasing times.  The controller reads its timestamps only through     *)
(* differences with at_time, so the clock is re-based after every call:    *)
(* now stays 0 and the stored timestamps move back by the time that        *)
(* passed, those older than LiveHorizon being indistinguishable.  calls    *)
(* carries the parity of the number of calls.                              *)
(***************************************************************************)
LiveThroughputs == {5000, 6000, 12000}
LiveStartBitrates == {15000, 17000}
LiveSteps == {100000, 1000000}
LiveHorizon == 1000000

rebase_time(t, d) == IF is_infinite(t) THEN t ELSE Max(t - d, 0 - LiveHorizon)

rebase(self, d) ==
    [self EXCEPT
        !.time_last_bitrate_change = rebase_time(self.time_last_bitrate_change, d),
        !.time_last_bitrate_decrease = rebase_time(self.time_last_bitrate_decrease, d),
        !.time_first_throughput_estimate =
            rebase_time(self.time_first_throughput_estimate, d)]

\* The controllers the stream starts from: set_estimate(b), then possibly
\* one over-use with throughput t0, which leaves the link capacity
\* estimator with an estimate.
LiveStarts ==
    LET fresh == AimdRateControl_new(AimdRateControlConfig_default, FALSE)
        set == {set_estimate(fresh, b, 0) : b \in LiveStartBitrates}
    IN  set \cup {update(a, RateControlInput_new("Overusing", Some(t0)), 0) :
                     a \in set, t0 \in LiveThroughputs}

LiveInit ==
    /\ \E a \in LiveStarts, t \in LiveThroughputs :
          /\ a.current_bitrate < increase_limit_of(t)
          /\ aimd = a
          /\ last = [op |-> "new", input |-> RateControlInput_new("Normal", Some(t)),
                     arg |-> 0, at_time |-> 0, prev |-> a, branch |-> "None",
                     panics |-> FALSE]
    /\ now = 0
    /\ calls = 0
    /\ inter_arrival = InterArrivalDelta_new(DefaultSendTimeGroupLength)
    /\ trendline = TrendlineEstimator_new(TrendlineEstimatorSettings_default)
    /\ link_capacity = LinkCapacityEstimator_new

LiveUpdate ==
    \E d \in LiveSteps :
       /\ aimd' = rebase(update(aimd, last.input, now + d), d)
       /\ last' = [op |-> "update", input |-> last.input, arg |-> 0, at_time |-> now,
                   prev |-> rebase(aimd, d),
                   branch |-> executed_branch(aimd, last.input, now + d),
                   panics |-> update_panics(aimd, last.input, now + d)]
       /\ calls' = (calls + 1) % 2
       /\ UNCHANGED <<inter_arrival, link_capacity, trendline>>
       /\ UNCHANGED now

\* Every LiveUpdate step, and no other, advances the parity of calls; the
\* caller never stops calling update.
LiveCall == calls' = (calls + 1) % 2

SpecLive == LiveInit /\ [][LiveUpdate]_vars /\ WF_calls(LiveCall)

(***************************************************************************)
(* Properties of AimdRateControl                                           *)
(***************************************************************************)
LastUpdate == last.op = "update"

\* The latest call was an update that found the controller uninitialized.
LastUpdateUninitialized == LastUpdate /\ ~last.prev.bitrate_is_initialized

\* The latest update met the conditions under which update adopts the
\* input's throughput as current_bitrate: a throughput estimate is present
\* and more than 5 s have passed since the first one was stamped.
AdoptionDue ==
    /\ last.input.estimated_throughput.some
    /\ is_finite(last.prev.time_first_throughput_estimate)
    /\ last.at_time - last.prev.time_first_throughput_estimate > INITIALIZATION_TIME

\* A network upper bound below the current bitrate applied as it stands.
PlainUpperBelowCurrent(self) ==
    /\ self.network_estimate.some
    /\ ~self.disable_estimate_bounded_increase
    /\ is_finite(self.network_estimate.v.link_capacity_upper)
    /\ ~self.use_current_estimate_as_min_upper_bound
    /\ self.network_estimate.v.link_capacity_upper < self.current_bitrate

\* C1: after every public call, latest_estimate() >= min_configured_bitrate.
\* Fails: set_start_bitrate stores its argument unclamped, and
\* set_min_bitrate takes min(min_bitrate, current_bitrate), so raising the
\* minimum above the current bitrate leaves the bitrate below it.
C1_AtLeastMin == latest_estimate(aimd) >= aimd.min_configured_bitrate

\* C2: after every public call, latest_estimate() <= max_configured_bitrate.
\* Fails: nothing compares a new bitrate with max_configured_bitrate.
C2_AtMostMax == latest_estimate(aimd) <= aimd.max_configured_bitrate

\* C3 as stated: set_min_bitrate, set_start_bitrate,
\* set_network_state_estimate and an update that does not execute the
\* Decrease arm never leave current_bitrate smaller than before the call.
C3_Original ==
    (\/ last.op \in {"set_min_bitrate", "set_start_bitrate", "set_network_state_estimate"}
     \/ (LastUpdate /\ last.branch # "Decrease"))
    => aimd.current_bitrate >= last.prev.current_bitrate

\* C3 amended: set_rtt, set_in_application_limited_region and
\* set_network_state_estimate leave current_bitrate as it is, and an update
\* that does not execute the Decrease arm never lowers it, unless it adopts
\* the throughput estimate of an uninitialized controller or the clamp
\* applies a network upper bound below the current bitrate
\* (use_current_estimate_as_min_upper_bound off).
C3_LoweredOnlyBy ==
    /\ last.op \in {"set_rtt", "set_in_application_limited_region",
                    "set_network_state_estimate"}
       => aimd.current_bitrate = last.prev.current_bitrate
    /\ (/\ LastUpdate
        /\ last.branch # "Decrease"
        /\ ~(LastUpdateUninitialized /\ AdoptionDue)
        /\ ~PlainUpperBelowCurrent(last.prev))
       => aimd.current_bitrate >= last.prev.current_bitrate

\* An update in Hold with a network upper bound below the current bitrate
\* installed and use_current_estimate_as_min_upper_bound on.
C3_Witness ==
    /\ LastUpdate
    /\ last.branch = "Hold"
    /\ last.prev.network_estimate.some
    /\ last.prev.use_current_estimate_as_min_upper_bound
    /\ is_finite(last.prev.network_estimate.v.link_capacity_upper)
    /\ last.prev.network_estimate.v.link_capacity_upper < last.prev.current_bitrate
    /\ aimd.current_bitrate = last.prev.current_bitrate

\* The transition table of rate_control_state.
TransitionTable(from, bw_state) ==
    CASE bw_state = "Underusing" -> "Hold"
      [] bw_state = "Overusing" -> "Decrease"
      [] bw_state = "Normal" -> IF from = "Hold" THEN "Increase" ELSE from

\* C4: on an initialized controller every update moves rate_control_state
\* according to the table, evaluated before the arm acts.
C4_TransitionTable ==
    (LastUpdate /\ last.prev.bitrate_is_initialized)
    => last.branch = TransitionTable(last.prev.rate_control_state, last.input.bw_state)

\* An over-use met in Increase.
C4_Witness ==
    /\ LastUpdate
    /\ last.prev.bitrate_is_initialized
    /\ last.prev.rate_control_state = "Increase"
    /\ last.input.bw_state = "Overusing"
    /\ last.branch = "Decrease"

\* C5: when update(input, at_time) executes the Decrease arm, on return
\* rate_control_state = Hold and both time_last_bitrate_decrease and
\* time_last_bitrate_change equal at_time.
C5_AfterDecrease ==
    (LastUpdate /\ last.branch = "Decrease")
    => /\ aimd.rate_control_state = "Hold"
       /\ aimd.time_last_bitrate_decrease = last.at_time
       /\ aimd.time_last_bitrate_change = last.at_time

\* A Decrease at a time later than the previous bitrate change.
C5_Witness ==
    /\ LastUpdate
    /\ last.branch = "Decrease"
    /\ is_finite(last.prev.time_last_bitrate_change)
    /\ last.prev.time_last_bitrate_change < last.at_time

\* C6 as stated: an update with Normal or Underusing input on an
\* uninitialized controller returns the current_bitrate it found.
C6_Original ==
    (LastUpdateUninitialized /\ last.input.bw_state # "Overusing")
    => aimd.current_bitrate = last.prev.current_bitrate

\* C6 amended: such an update returns the current_bitrate it found unless
\* it adopts the throughput estimate (one is present and more than 5 s have
\* passed since the first was stamped).
C6_UnchangedUnlessAdopted ==
    (LastUpdateUninitialized /\ last.input.bw_state # "Overusing" /\ ~AdoptionDue)
    => aimd.current_bitrate = last.prev.current_bitrate

\* A Normal update with a throughput other than the current bitrate, 5 s
\* after the first throughput estimate, on a controller still uninitialized.
C6_Witness ==
    /\ LastUpdateUninitialized
    /\ last.input.bw_state = "Normal"
    /\ last.input.estimated_throughput.some
    /\ last.input.estimated_throughput.v # last.prev.current_bitrate
    /\ is_finite(last.prev.time_first_throughput_estimate)
    /\ last.at_time - last.prev.time_first_throughput_estimate = INITIALIZATION_TIME
    /\ aimd.current_bitrate = last.prev.current_bitrate

\* C7: an update with Overusing input on an uninitialized controller
\* executes the Decrease arm whatever the elapsed time and whether or not a
\* throughput estimate was ever seen, and valid_estimate() holds afterwards.
C7_OveruseInitializes ==
    (LastUpdateUninitialized /\ last.input.bw_state = "Overusing")
    => last.branch = "Decrease" /\ valid_estimate(aimd)

\* The over-use is the first call, with no throughput estimate ever seen.
C7_Witness ==
    /\ LastUpdateUninitialized
    /\ last.input.bw_state = "Overusing"
    /\ ~last.input.estimated_throughput.some
    /\ is_infinite(last.prev.time_first_throughput_estimate)
    /\ valid_estimate(aimd)

\* C8 as stated: on an uninitialized controller with a stamped first
\* throughput estimate, an update carrying a throughput estimate at
\* at_time - time_first_throughput_estimate >= 5 s initializes it.
C8_Original ==
    (/\ LastUpdateUninitialized
     /\ last.input.estimated_throughput.some
     /\ is_finite(last.prev.time_first_throughput_estimate)
     /\ last.at_time - last.prev.time_first_throughput_estimate >= INITIALIZATION_TIME)
    => valid_estimate(aimd)

\* C8 amended: on an uninitialized controller the first update carrying a
\* throughput estimate stamps time_first_throughput_estimate; an update
\* carrying a throughput estimate more than 5 s after the stamp
\* (at_time - time_first_throughput_estimate > 5 s) adopts it as
\* current_bitrate, marks the controller initialized and goes on to
\* change_bitrate; any other update leaves it uninitialized unless its
\* input is Overusing.
C8_Initialization ==
    LastUpdateUninitialized =>
       /\ (is_infinite(last.prev.time_first_throughput_estimate)
           /\ last.input.estimated_throughput.some)
          => aimd.time_first_throughput_estimate = last.at_time
       /\ AdoptionDue
          => /\ valid_estimate(aimd)
             /\ aimd = change_bitrate(
                          [last.prev EXCEPT
                              !.current_bitrate = last.input.estimated_throughput.v,
                              !.bitrate_is_initialized = TRUE],
                          last.input, last.at_time)
       /\ (~AdoptionDue /\ last.input.bw_state # "Overusing")
          => ~valid_estimate(aimd)

\* A Normal update adopts its throughput more than 5 s after the stamp.
C8_Witness ==
    /\ LastUpdateUninitialized
    /\ last.input.bw_state = "Normal"
    /\ AdoptionDue
    /\ valid_estimate(aimd)
    /\ aimd.current_bitrate # last.prev.current_bitrate

\* C9: an update with Overusing input never increases the bitrate.
\* Fails: the final clamp raises a bitrate that set_start_bitrate left below
\* min_configured_bitrate, and an over-use that initializes the controller
\* adopts a throughput above the bitrate it found before backing off.
C9_OveruseNeverIncreases ==
    (LastUpdate /\ last.input.bw_state = "Overusing")
    => latest_estimate(aimd) <= latest_estimate(last.prev)

\* C10: with a constant throughput T >= 5 kbps and Normal inputs forever at
\* increasing times, from an initialized controller below the limit,
\* latest_estimate eventually equals 1.5 * T + 10 kbps and stays there.
\* Fails: with a link capacity estimate the increase is additive,
\* near_max_rate * (at_time - time_last_bitrate_change).seconds(), and
\* seconds() is whole seconds, so updates less than 1 s apart add nothing.
C10_Converges ==
    <>[](latest_estimate(aimd) = increase_limit_of(last.input.estimated_throughput.v))

\* The throughput an update acts on: the input's estimate or, when absent,
\* the latest one seen.
LastThroughput ==
    IF last.input.estimated_throughput.some
    THEN last.input.estimated_throughput.v
    ELSE last.prev.latest_estimated_throughput

\* 1.5 * throughput + 10 kbps for the latest update.
LastIncreaseLimit == (3 * LastThroughput) \div 2 + 10000

LastUpdateNormalInitialized ==
    LastUpdate /\ last.input.bw_state = "Normal" /\ last.prev.bitrate_is_initialized

\* C11 as stated: an update with Normal input on an initialized controller
\* never raises current_bitrate above 1.5 * throughput + 10 kbps, and
\* leaves current_bitrate unchanged when it is already at or above it.
C11_Original ==
    LastUpdateNormalInitialized
    => /\ aimd.current_bitrate > last.prev.current_bitrate
          => aimd.current_bitrate <= LastIncreaseLimit
       /\ last.prev.current_bitrate >= LastIncreaseLimit
          => aimd.current_bitrate = last.prev.current_bitrate

\* C11 amended: such an update never raises current_bitrate above the
\* larger of the limit and min_configured_bitrate, and when current_bitrate
\* is already at or above the limit the result is the larger of
\* current_bitrate and min_configured_bitrate, unless the final clamp
\* applies a network upper bound below the current bitrate
\* (use_current_estimate_as_min_upper_bound off).
C11_IncreaseLimited ==
    LastUpdateNormalInitialized
    => /\ aimd.current_bitrate > last.prev.current_bitrate
          => aimd.current_bitrate
                <= Max(LastIncreaseLimit, last.prev.min_configured_bitrate)
       /\ (last.prev.current_bitrate >= LastIncreaseLimit
           /\ ~PlainUpperBelowCurrent(last.prev))
          => aimd.current_bitrate
                = Max(last.prev.current_bitrate, last.prev.min_configured_bitrate)

\* A Normal update with a throughput that fell: the bitrate is above the
\* limit and stays.
C11_Witness ==
    /\ LastUpdateNormalInitialized
    /\ last.input.estimated_throughput.some
    /\ last.prev.current_bitrate > LastIncreaseLimit
    /\ last.prev.current_bitrate >= last.prev.min_configured_bitrate
    /\ aimd.current_bitrate = last.prev.current_bitrate

\* C12 as stated: on a send-side controller with no_bitrate_increase_in_alr
\* and the ALR flag set, an update with Normal input leaves latest_estimate
\* equal to what it was.
C12_Original ==
    (LastUpdate /\ last.input.bw_state = "Normal" /\ alr_forbids_increase(last.prev))
    => latest_estimate(aimd) = latest_estimate(last.prev)

\* C12 amended: on such a controller, once initialized, an update with
\* Normal input returns the larger of the bitrate it found and
\* min_configured_bitrate, unless the final clamp applies a network upper
\* bound below the current bitrate
\* (use_current_estimate_as_min_upper_bound off), and then it returns no
\* more than that.
C12_NoIncreaseInAlr ==
    (LastUpdateNormalInitialized /\ last.prev.send_side /\ last.prev.in_alr
     /\ last.prev.no_bitrate_increase_in_alr)
    => LET floor == Max(latest_estimate(last.prev), last.prev.min_configured_bitrate)
       IN  IF PlainUpperBelowCurrent(last.prev)
           THEN latest_estimate(aimd) <= floor
           ELSE latest_estimate(aimd) = floor

\* In ALR a Normal update with a throughput that would allow an increase
\* leaves the bitrate as it is.
C12_Witness ==
    /\ LastUpdateNormalInitialized
    /\ last.prev.send_side /\ last.prev.in_alr /\ last.prev.no_bitrate_increase_in_alr
    /\ last.prev.current_bitrate >= last.prev.min_configured_bitrate
    /\ last.prev.current_bitrate < LastIncreaseLimit
    /\ latest_estimate(aimd) = latest_estimate(last.prev)

\* C13: in every reachable state every public operation returns without
\* panicking: no failed assertion, no integer division by zero and no
\* 64-bit overflow.
\* Fails: a controller that never changed its bitrate holds
\* time_last_bitrate_change = i64::MIN, and time_to_reduce_further subtracts
\* it from at_time; get_feedback_interval divides by 5% of a bitrate below
\* 20 bps; the near-max increase rate asserts a non-zero bitrate, in the
\* getters and inside update.
C13_Total ==
    /\ ~last.panics
    /\ ~get_feedback_interval(aimd).panics
    /\ ~get_near_max_increase_rate_panics(aimd)
    /\ ~get_expected_bandwidth_period(aimd).panics
    /\ \A d \in TimeSteps, r \in EstimateInputs :
          "panic" \notin time_to_reduce_further(aimd, now + d, r)

LastSetEstimate == last.op = "set_estimate"

\* A network state estimate with a finite link_capacity_upper is installed.
UpperInstalled(self) ==
    self.network_estimate.some /\ is_finite(self.network_estimate.v.link_capacity_upper)

\* A network state estimate with a finite link_capacity_lower is installed.
LowerInstalled(self) ==
    self.network_estimate.some /\ is_finite(self.network_estimate.v.link_capacity_lower)

\* C14: with a finite link_capacity_upper installed and link_capacity_lower
\* not finite, set_estimate(r) sets current_bitrate to
\* max(min(r, U), min_configured_bitrate), U being
\* max(link_capacity_upper, previous current_bitrate) when
\* use_current_estimate_as_min_upper_bound is on and link_capacity_upper
\* when it is off; with disable_estimate_bounded_increase it is
\* max(r, min_configured_bitrate).
C14_UpperClamp ==
    (LastSetEstimate /\ UpperInstalled(last.prev) /\ ~LowerInstalled(last.prev))
    => LET upper == last.prev.network_estimate.v.link_capacity_upper
           U == IF last.prev.use_current_estimate_as_min_upper_bound
                THEN Max(upper, last.prev.current_bitrate)
                ELSE upper
       IN  aimd.current_bitrate
              = IF last.prev.disable_estimate_bounded_increase
                THEN Max(last.arg, last.prev.min_configured_bitrate)
                ELSE Max(Min(last.arg, U), last.prev.min_configured_bitrate)

\* set_estimate above an installed upper bound that is above the current
\* bitrate: the result is the upper bound.
C14_Witness ==
    /\ LastSetEstimate
    /\ UpperInstalled(last.prev) /\ ~LowerInstalled(last.prev)
    /\ ~last.prev.disable_estimate_bounded_increase
    /\ last.prev.network_estimate.v.link_capacity_upper > last.prev.current_bitrate
    /\ last.arg > last.prev.network_estimate.v.link_capacity_upper
    /\ aimd.current_bitrate = last.prev.network_estimate.v.link_capacity_upper

\* The latest call went through clamp_bitrate with the current bitrate it
\* found: a set_estimate, or an update of an initialized controller that
\* returned.
LastCallClamped ==
    \/ LastSetEstimate
    \/ (LastUpdate /\ last.prev.bitrate_is_initialized /\ ~last.panics)

\* The latest call, made again on the controller `self`.
LastCallOn(self) ==
    IF LastSetEstimate THEN set_estimate(self, last.arg, last.at_time)
    ELSE update(self, last.input, last.at_time)

\* link_capacity_upper below the current bitrate, with the current bitrate
\* counting as the least upper bound.
UpperBelowCurrentUsed(self) ==
    /\ UpperInstalled(self)
    /\ ~self.disable_estimate_bounded_increase
    /\ self.use_current_estimate_as_min_upper_bound
    /\ self.network_estimate.v.link_capacity_upper < self.current_bitrate

\* C15 as stated: with link_capacity_upper below current_bitrate and
\* use_current_estimate_as_min_upper_bound on, the call produces the bitrate
\* it would produce with no upper bound installed.
C15_Original ==
    (LastCallClamped /\ UpperBelowCurrentUsed(last.prev))
    => aimd.current_bitrate
          = LastCallOn([last.prev EXCEPT
                           !.network_estimate.v.link_capacity_upper = PLUS_INFINITY_VAL
                       ]).current_bitrate

\* C15 amended: in that case the current bitrate takes the place of the
\* upper bound: the call produces the bitrate it would produce with
\* link_capacity_upper equal to current_bitrate, so it can lower the bitrate
\* or keep it and cannot raise it above the larger of current_bitrate and
\* min_configured_bitrate.
C15_CurrentIsUpperBound ==
    (LastCallClamped /\ UpperBelowCurrentUsed(last.prev))
    => /\ aimd.current_bitrate
             = LastCallOn([last.prev EXCEPT
                              !.network_estimate.v.link_capacity_upper =
                                  last.prev.current_bitrate]).current_bitrate
       /\ aimd.current_bitrate
             <= Max(last.prev.current_bitrate, last.prev.min_configured_bitrate)

\* set_estimate above the current bitrate with a lower upper bound
\* installed: the bitrate stays.
C15_Witness ==
    /\ LastSetEstimate
    /\ UpperBelowCurrentUsed(last.prev)
    /\ last.arg > last.prev.current_bitrate
    /\ last.prev.current_bitrate >= last.prev.min_configured_bitrate
    /\ aimd.current_bitrate = last.prev.current_bitrate

\* min(current, max(min(r, U), beta * link_capacity_lower)) floored at
\* min_configured_bitrate, as clamp_bitrate computes it for a request r.
ClampExpected(self, r) ==
    LET upper == self.network_estimate.v.link_capacity_upper
        U == IF self.use_current_estimate_as_min_upper_bound
             THEN Max(upper, self.current_bitrate)
             ELSE upper
        b1 == IF UpperInstalled(self) /\ ~self.disable_estimate_bounded_increase
              THEN Min(r, U) ELSE r
        beta_lower == (self.network_estimate.v.link_capacity_lower * self.beta) \div 100
        b2 == IF LowerInstalled(self) /\ b1 < self.current_bitrate
              THEN Min(self.current_bitrate, Max(b1, beta_lower))
              ELSE b1
    IN  Max(b2, self.min_configured_bitrate)

\* C16 as stated: with a finite link_capacity_lower installed, a
\* set_estimate(r) with r below current_bitrate results in
\* min(current, max(r, beta * link_capacity_lower)).
C16_Original ==
    (LastSetEstimate /\ LowerInstalled(last.prev) /\ last.arg < last.prev.current_bitrate)
    => LET beta_lower == (last.prev.network_estimate.v.link_capacity_lower
                              * last.prev.beta) \div 100
       IN  aimd.current_bitrate
              = Min(last.prev.current_bitrate, Max(last.arg, beta_lower))

\* C16 amended: the result is
\* max(min(current, max(r', beta * link_capacity_lower)), min_configured_bitrate),
\* r' being r after the upper bound if one applies; it is never below
\* min(current, beta * link_capacity_lower).
C16_LowerClamp ==
    (LastSetEstimate /\ LowerInstalled(last.prev) /\ last.arg < last.prev.current_bitrate)
    => LET beta_lower == (last.prev.network_estimate.v.link_capacity_lower
                              * last.prev.beta) \div 100
       IN  /\ aimd.current_bitrate = ClampExpected(last.prev, last.arg)
           /\ aimd.current_bitrate >= Min(last.prev.current_bitrate, beta_lower)

\* A request below beta * link_capacity_lower with the current bitrate
\* above it: the result is beta * link_capacity_lower.
C16_Witness ==
    /\ LastSetEstimate
    /\ LowerInstalled(last.prev)
    /\ last.arg < clamp_lower_bound(last.prev)
    /\ clamp_lower_bound(last.prev) < last.prev.current_bitrate
    /\ clamp_lower_bound(last.prev) > last.prev.min_configured_bitrate
    /\ aimd.current_bitrate
          = (last.prev.network_estimate.v.link_capacity_lower * last.prev.beta) \div 100

C18_FeedbackInterval ==
    LET interval == get_feedback_interval(aimd)
        rtcp_bitrate == (aimd.current_bitrate * 5) \div 100
        expected == IF rtcp_bitrate = 0 THEN 1000000
                    ELSE Max(200000, Min(1000000, 640000000 \div rtcp_bitrate))
    IN  ~interval.panics /\ interval.v = expected

\* The operation applied is an addition.
LastIsAddition ==
    last.op \in {"Timestamp + TimeDelta", "TimeDelta + TimeDelta", "DataRate + DataRate"}

\* The infinity an operation with exactly one infinite operand saturates
\* to: the infinite operand, negated when it is subtracted.
SaturatedResult ==
    IF arith_is_infinite(last.a) THEN last.a
    ELSE IF LastIsAddition THEN last.b
    ELSE IF last.b = ArithMin THEN ArithMax ELSE ArithMin

\* C19: an operation on Timestamp, TimeDelta or DataRate with one infinite
\* operand yields the same-signed infinity, never a panic, a wrapped or a
\* finite value.
\* Fails: only Timestamp + TimeDelta and Timestamp - TimeDelta test for
\* infinities; the other operators are a plain i64 + or -.
C19_Saturates ==
    (/\ last.op # "none"
     /\ arith_is_infinite(last.a) # arith_is_infinite(last.b))
    => ~last.out.panics /\ last.out.v = SaturatedResult

\* C20: compute_deltas emits only on a call whose packet closes the current
\* group while a group closed earlier exists (prev_timestamp_group.complete_time
\* finite); the first packet, a packet joining the current group and the
\* packet closing the first group since the initial or a reset state emit
\* nothing.
C20_EmitsOnlyOnLaterBoundary ==
    last.op = "compute_deltas" =>
       /\ last.out.calculated_deltas =>
             /\ new_timestamp_group(last.prev, last.packet.arrival_time,
                                    last.packet.send_time)
             /\ last.packet.send_time >= last.prev.current_timestamp_group.first_send_time
             /\ is_finite(last.prev.prev_timestamp_group.complete_time)
             /\ last.groups_closed_before >= 1
       /\ last.groups_closed_before = 0 => ~last.out.calculated_deltas
       /\ is_first_packet(last.prev.current_timestamp_group)
             => ~last.out.calculated_deltas
       /\ ~new_timestamp_group(last.prev, last.packet.arrival_time, last.packet.send_time)
             => ~last.out.calculated_deltas
       /\ (last.groups_closed_before >= 1)
             = is_finite(last.prev.prev_timestamp_group.complete_time)

\* A packet closes the second group and deltas are emitted.
C20_Witness ==
    /\ last.op = "compute_deltas"
    /\ last.out.calculated_deltas
    /\ last.groups_closed_before = 1
    /\ last.groups_closed = 2

\* The latest call met a group boundary with a previously closed group:
\* the packet is not reordered, does not join the current group, and both
\* groups hold packets.
LastBoundaryWithPrev ==
    /\ last.op = "compute_deltas"
    /\ ~is_first_packet(last.prev.current_timestamp_group)
    /\ last.packet.send_time >= last.prev.current_timestamp_group.first_send_time
    /\ new_timestamp_group(last.prev, last.packet.arrival_time, last.packet.send_time)
    /\ is_finite(last.prev.prev_timestamp_group.complete_time)

LastArrivalDelta ==
    last.prev.current_timestamp_group.complete_time
       - last.prev.prev_timestamp_group.complete_time

LastSystemDelta ==
    last.prev.current_timestamp_group.last_system_time
       - last.prev.prev_timestamp_group.last_system_time

LastClockJump == LastArrivalDelta - LastSystemDelta >= ARRIVAL_TIME_OFFSET_THRESHOLD

\* The grouper is as constructed: both groups in the first-packet state.
GrouperIsInitial ==
    /\ inter_arrival.current_timestamp_group = SendTimeGroup_new
    /\ inter_arrival.prev_timestamp_group = SendTimeGroup_new
    /\ inter_arrival.num_consecutive_reordered_packets = 0

\* C21: a group boundary with arrival delta - system delta >= 3 s emits
\* nothing and resets the grouper: both groups are in the first-packet state
\* (times minus infinity, size 0), the reorder counter is 0, the packet is
\* not retained and any next packet is treated as a first packet.
C21_ClockJumpResets ==
    (LastBoundaryWithPrev /\ LastClockJump) =>
       /\ ~last.out.calculated_deltas
       /\ GrouperIsInitial
       /\ inter_arrival.current_timestamp_group.size = 0
       /\ inter_arrival.current_timestamp_group.complete_time = MINUS_INFINITY_VAL
       /\ \A p \in PacketInputs :
             compute_deltas(inter_arrival, p.send_time, p.arrival_time, p.system_time,
                            p.packet_size).out.branch = "first_packet"

\* A boundary whose arrival clock jumped 4 s ahead of the system clock.
C21_Witness ==
    /\ LastBoundaryWithPrev
    /\ LastClockJump
    /\ LastArrivalDelta >= ARRIVAL_TIME_OFFSET_THRESHOLD
    /\ GrouperIsInitial

\* C22: a group boundary with a negative arrival delta (and no clock jump)
\* emits nothing and increments the reorder counter, resetting the grouper
\* when the counter reaches 3; a boundary with arrival delta >= 0 (and no
\* clock jump) clears the counter; so a reset by reordering happens only on
\* the third such boundary in a row.
C22_ReorderedGroups ==
    (LastBoundaryWithPrev /\ ~LastClockJump) =>
       IF LastArrivalDelta < 0
       THEN /\ ~last.out.calculated_deltas
            /\ IF last.prev.num_consecutive_reordered_packets + 1 >= 3
               THEN /\ GrouperIsInitial
                    /\ last.prev.num_consecutive_reordered_packets = 2
               ELSE inter_arrival =
                       [last.prev EXCEPT !.num_consecutive_reordered_packets = @ + 1]
       ELSE /\ inter_arrival.num_consecutive_reordered_packets = 0
            /\ last.out.calculated_deltas

\* The third boundary in a row with a negative arrival delta resets.
C22_Witness ==
    /\ LastBoundaryWithPrev
    /\ ~LastClockJump
    /\ LastArrivalDelta < 0
    /\ last.prev.num_consecutive_reordered_packets = 2
    /\ GrouperIsInitial

\* C23: a packet sent before the first packet of the current group (the
\* group holding packets) is dropped: nothing is emitted and the current
\* group, the previous group and the reorder counter are unchanged.
C23_ReorderedPacketDropped ==
    (/\ last.op = "compute_deltas"
     /\ ~is_first_packet(last.prev.current_timestamp_group)
     /\ last.packet.send_time < last.prev.current_timestamp_group.first_send_time)
    => /\ ~last.out.calculated_deltas
       /\ inter_arrival = last.prev

\* A packet sent 10 ms before the current group's first packet is dropped
\* while a previous group and a reorder count exist.
C23_Witness ==
    /\ last.op = "compute_deltas"
    /\ ~is_first_packet(last.prev.current_timestamp_group)
    /\ last.packet.send_time < last.prev.current_timestamp_group.first_send_time
    /\ is_finite(last.prev.prev_timestamp_group.complete_time)
    /\ last.prev.num_consecutive_reordered_packets > 0

\* C27: deviation_kbps is within [0.4, 2.5] (400..2500 thousandths) in every
\* reachable state of the estimator, whatever on_overuse_detected,
\* on_probe_rate and reset calls were made; reset clears the estimate and
\* leaves the deviation as it was.
C27_DeviationBounded ==
    /\ link_capacity.deviation_kbps >= 400
    /\ link_capacity.deviation_kbps <= 2500
    /\ last.op = "reset" =>
          /\ ~link_capacity.estimate_kbps.some
          /\ link_capacity.deviation_kbps = last.prev.deviation_kbps

\* A reset of an estimator that held an estimate and a deviation raised to
\* the upper limit.
C27_Witness ==
    /\ last.op = "reset"
    /\ last.prev.estimate_kbps.some
    /\ last.prev.deviation_kbps = 2500
    /\ link_capacity.deviation_kbps = 2500

\* C28: set_min_bitrate(r) sets min_configured_bitrate to r and
\* current_bitrate to min(r, previous current_bitrate): the bitrate is only
\* ever lowered to the new minimum, never raised to it.
C28_SetMinBitrate ==
    last.op = "set_min_bitrate" =>
       /\ aimd.min_configured_bitrate = last.arg
       /\ aimd.current_bitrate = Min(last.arg, last.prev.current_bitrate)
       /\ aimd.current_bitrate <= last.prev.current_bitrate
       /\ aimd = [last.prev EXCEPT !.min_configured_bitrate = aimd.min_configured_bitrate,
                                   !.current_bitrate = aimd.current_bitrate]

\* A bitrate below the new minimum is left below it.
C28_Witness ==
    /\ last.op = "set_min_bitrate"
    /\ last.prev.current_bitrate < last.arg
    /\ aimd.current_bitrate = last.prev.current_bitrate
    /\ aimd.current_bitrate < aimd.min_configured_bitrate

\* The result C29 states for time_to_reduce_further(at_time, thr): the time
\* since the last bitrate change, infinite when the bitrate never changed,
\* has reached the reduction interval, or the controller is initialized and
\* thr is below half the current bitrate.
ReduceFurtherStated(self, at_time, estimated_throughput) ==
    LET interval == Max(10000, Min(200000, self.rtt))
        elapsed_reached ==
            \/ self.time_last_bitrate_change = MINUS_INFINITY_VAL
            \/ at_time - self.time_last_bitrate_change >= interval
    IN  IF \/ elapsed_reached
           \/ /\ self.bitrate_is_initialized
              /\ 2 * estimated_throughput < self.current_bitrate
        THEN "true" ELSE "false"

\* C29: time_to_reduce_further(t, thr) is true exactly when
\* t - time_last_bitrate_change >= clamp(rtt, 10 ms, 200 ms) or the controller
\* is initialized and thr < 0.5 * current_bitrate; with
\* time_last_bitrate_change = minus infinity the elapsed time is infinite and
\* the result is true for every finite t.
\* Fails: t - i64::MIN overflows for t >= 0; the call panics or the
\* difference wraps to a negative delta.
C29_TimeToReduceFurther ==
    \A d \in TimeSteps, r \in EstimateInputs :
       time_to_reduce_further(aimd, now + d, r) = {ReduceFurtherStated(aimd, now + d, r)}

\* The latest update left the bitrate above the one it found.
LiveRaised ==
    last.op = "update" /\ latest_estimate(aimd) > latest_estimate(last.prev)

\* The bitrate is below the increase limit of the constant throughput.
LiveBelowLimit ==
    latest_estimate(aimd) < increase_limit_of(last.input.estimated_throughput.v)

\* C30: outside ALR, from an initialized controller with the bitrate below
\* the increase limit, Normal updates at strictly increasing times
\* eventually raise latest_estimate, with or without a link capacity
\* estimate: the bitrate never stays below the limit without ever rising.
\* Fails: with a link capacity estimate the additive increase is multiplied
\* by whole seconds since the last change, 0 for updates 100 ms apart.
C30_NotStuck == []<>(LiveRaised \/ ~LiveBelowLimit)

\* C24: the threshold starts at 12.5 and is within [6.0, 600.0] after every
\* update, for every sequence of samples with finite values.
\* Fails: two samples at the end of the finite range make accumulated_delay
\* and smoothed_delay infinite, the linear fit then computes
\* infinity - infinity, the trend and the modified trend are NaN, and
\* f64::clamp returns a NaN threshold as it is.
C24_ThresholdBounded ==
    /\ last.op = "new" => trendline.threshold = INITIAL_THRESHOLD
    /\ f_ge(trendline.threshold, MIN_THRESHOLD)
    /\ f_ge(MAX_THRESHOLD, trendline.threshold)

\* The latest call ran update_trendline.
LastTrendlineUpdate == last.op = "update" /\ last.sample.calculated_deltas

\* The entry the latest update pushed.
LastEntry ==
    PacketTiming_new(
        f_from_int(last.arrival_time_ms - trendline.first_arrival_time_ms),
        trendline.smoothed_delay, trendline.accumulated_delay)

\* The entries of a window that arrived no later / later than the entry.
NotLaterThan(hist, entry) ==
    SelectSeq(hist, LAMBDA e : ~f_gt(e.arrival_time_ms, entry.arrival_time_ms))

LaterThan(hist, entry) ==
    SelectSeq(hist, LAMBDA e : f_gt(e.arrival_time_ms, entry.arrival_time_ms))

\* The window with the entry put in: at the back, or with sorting after the
\* entries that arrived no later than it.
WithEntry(hist, entry, enable_sort) ==
    IF enable_sort
    THEN NotLaterThan(hist, entry) \o <<entry>> \o LaterThan(hist, entry)
    ELSE Append(hist, entry)

NonDecreasingArrival(hist) ==
    \A i \in 1..Len(hist), j \in 1..Len(hist) :
       i < j => ~f_gt(hist[i].arrival_time_ms, hist[j].arrival_time_ms)

\* C25: after every trendline update the window holds at most window_size
\* entries, the front entry being evicted when it would hold more; with
\* enable_sort its entries are non-decreasing in arrival_time_ms and the new
\* entry stands after the entries of equal arrival time.
C25_Window ==
    /\ Len(trendline.delay_hist) <= trendline.settings.window_size
    /\ trendline.settings.enable_sort => NonDecreasingArrival(trendline.delay_hist)
    /\ LastTrendlineUpdate =>
          LET put == WithEntry(last.prev.delay_hist, LastEntry,
                               trendline.settings.enable_sort)
          IN  trendline.delay_hist =
                 IF Len(put) > trendline.settings.window_size THEN Tail(put) ELSE put

\* With sorting, a full window takes an entry that arrived before its last
\* entry and at the same time as another one.
C25_Witness ==
    /\ LastTrendlineUpdate
    /\ trendline.settings.enable_sort
    /\ Len(last.prev.delay_hist) = trendline.settings.window_size
    /\ Len(trendline.delay_hist) = trendline.settings.window_size
    /\ \E i \in 1..Len(last.prev.delay_hist) :
          /\ f_gt(last.prev.delay_hist[i].arrival_time_ms, LastEntry.arrival_time_ms)
          /\ \E j \in 1..Len(last.prev.delay_hist) :
                last.prev.delay_hist[j].arrival_time_ms = LastEntry.arrival_time_ms

\* C26: the hypothesis is Normal while fewer than 2 deltas have been
\* processed, and num_of_deltas never exceeds 1000 however many samples are
\* fed.
C26_DeltasCounted ==
    /\ trendline.num_of_deltas < 2 => trendline_state(trendline) = "Normal"
    /\ trendline.num_of_deltas <= 1000
    /\ LastTrendlineUpdate =>
          trendline.num_of_deltas = Min(last.prev.num_of_deltas + 1, 1000)

\* A sample with deltas is fed to an estimator that has counted 1000.
C26_Witness ==
    /\ LastTrendlineUpdate
    /\ last.prev.num_of_deltas = 1000
    /\ trendline.num_of_deltas = 1000
    /\ calls > 1000


\* The candidate of the Decrease arm as the last update computed it from the
\* throughput it used: beta * T, less 5 kbps when the term applies.
LastOveruseInitialized ==
    /\ LastUpdate
    /\ last.input.bw_state = "Overusing"
    /\ last.prev.bitrate_is_initialized
    /\ last.prev.network_estimate = NoNetworkStateEstimate

LastCandidate ==
    LET scaled == (LastThroughput * last.prev.beta) \div 100
    IN  IF scaled > 5000 /\ last.prev.subtract_additional_backoff_term
        THEN scaled - 5000
        ELSE scaled

LastCapacityCandidate ==
    (link_capacity_estimate(last.prev.link_capacity) * last.prev.beta) \div 100

\* C31: on an initialized controller with no network estimate, an Overusing
\* update with throughput T takes beta * T (less 5 kbps when that exceeds
\* 5 kbps and the backoff term is configured) as candidate; a candidate below
\* current_bitrate gives current_bitrate = max(candidate, min_configured_bitrate);
\* a candidate above current_bitrate, with a link-capacity estimate, is replaced
\* by beta * estimate, which is installed the same way if it is below
\* current_bitrate.
C31_Decrease ==
    LastOveruseInitialized =>
        /\ LastCandidate < last.prev.current_bitrate =>
               aimd.current_bitrate
                   = Max(LastCandidate, last.prev.min_configured_bitrate)
        /\ ( /\ LastCandidate > last.prev.current_bitrate
             /\ has_estimate(last.prev.link_capacity)
             /\ LastCapacityCandidate < last.prev.current_bitrate ) =>
               aimd.current_bitrate
                   = Max(LastCapacityCandidate, last.prev.min_configured_bitrate)

\* The drop of the bandwidth period test: 264 kbps, over-use with 260 kbps
\* acknowledged, 216 kbps.
C31_Witness ==
    /\ LastOveruseInitialized
    /\ last.prev.current_bitrate = 264000
    /\ LastThroughput = 260000
    /\ LastCandidate = 216000
    /\ aimd.current_bitrate = 216000


\* The latest update left the window short of window_size entries.
LastWindowNotFull ==
    /\ LastTrendlineUpdate
    /\ Len(trendline.delay_hist) < trendline.settings.window_size

\* The latest update had a full window whose fit has a zero denominator.
LastFitDegenerate ==
    /\ LastTrendlineUpdate
    /\ Len(trendline.delay_hist) = trendline.settings.window_size
    /\ ~linear_fit_slope(trendline.delay_hist).some

LastTrendRetained == last.trend = last.prev.prev_trend

\* C32: an update whose window is not yet full, or whose linear fit is
\* degenerate, retains the previous trend and leaves state() as it was.
C32_TrendRetained ==
    (LastWindowNotFull \/ LastFitDegenerate) =>
        /\ LastTrendRetained
        /\ trendline_state(trendline) = trendline_state(last.prev)


\* The over-use timer as the latest update advanced it: half the send delta
\* when it was undefined, the send delta more otherwise.
LastTimeOverUsing ==
    IF last.prev.time_over_using = TIME_OVER_USING_UNDEFINED
    THEN f_mul_ratio(last.sample.send_delta_ms, 1, 2)
    ELSE f_add(last.prev.time_over_using, last.sample.send_delta_ms)

LastBecameOverusing ==
    /\ LastTrendlineUpdate
    /\ trendline.hypothesis = "Overusing"
    /\ last.prev.hypothesis # "Overusing"

\* C33: the hypothesis becomes Overusing only on a sample whose modified
\* trend is above the threshold, with more than 10 ms of over-use accumulated,
\* the over-use counter above 1 (so an earlier sample was above the threshold
\* too) and a trend not below the previous one; the counter and the timer are
\* 0 after that sample.
C33_OveruseConfirmed ==
    LastBecameOverusing =>
        /\ f_gt(trendline.prev_modified_trend, last.prev.threshold)
        /\ f_gt(LastTimeOverUsing, f_from_int(OVER_USING_TIME_THRESHOLD))
        /\ last.prev.overuse_counter + 1 > 1
        /\ last.prev.overuse_counter >= 1
        /\ f_ge(last.trend, last.prev.prev_trend)
        /\ trendline.overuse_counter = 0
        /\ trendline.time_over_using = 0

\* A Normal verdict turns into Overusing on the second sample above the
\* threshold.
C33_Witness ==
    /\ LastBecameOverusing
    /\ last.prev.hypothesis = "Normal"
    /\ last.prev.overuse_counter = 1


\* The latest call left the current group in place: the packet joined it or
\* was dropped, or a reordered boundary was counted without a reset.
LastKeptGroup ==
    /\ last.op = "compute_deltas"
    /\ last.out.branch \in {"joined", "reordered_packet", "reordered_group"}
    /\ ~is_first_packet(inter_arrival.current_timestamp_group)

LastJoined == last.op = "compute_deltas" /\ last.out.branch = "joined"

\* C34: while the current group stays in place its send_time never
\* decreases, a joining packet making it the maximum of the send times seen
\* in the group; and first_send_time <= send_time after every call that
\* leaves the group out of the first-packet state.
C34_SendTimeMonotone ==
    /\ ~is_first_packet(inter_arrival.current_timestamp_group) =>
           inter_arrival.current_timestamp_group.first_send_time
              <= inter_arrival.current_timestamp_group.send_time
    /\ LastKeptGroup =>
           /\ inter_arrival.current_timestamp_group.send_time
                 >= last.prev.current_timestamp_group.send_time
           /\ inter_arrival.current_timestamp_group.first_send_time
                 = last.prev.current_timestamp_group.first_send_time
    /\ LastJoined =>
           /\ inter_arrival.current_timestamp_group.send_time
                 >= last.packet.send_time
           /\ inter_arrival.current_timestamp_group.send_time
                 \in {last.packet.send_time, last.prev.current_timestamp_group.send_time}

\* A packet joins a group whose send_time is later than its own.
C34_Witness ==
    /\ LastJoined
    /\ last.packet.send_time < last.prev.current_timestamp_group.send_time
    /\ inter_arrival.current_timestamp_group.send_time
          = last.prev.current_timestamp_group.send_time


\* C35: rate_control_state is never Decrease when a call returns: every
\* state between calls has Hold or Increase, and no update starts from
\* Decrease.
C35_NeverDecrease ==
    /\ aimd.rate_control_state \in {"Hold", "Increase"}
    /\ LastUpdate => last.prev.rate_control_state \in {"Hold", "Increase"}

\* An update executed the Decrease arm and returned on Hold.
C35_Witness ==
    /\ LastUpdate
    /\ last.input.bw_state = "Overusing"
    /\ last.branch = "Decrease"
    /\ aimd.rate_control_state = "Hold"


LastEmitted == last.op = "compute_deltas" /\ last.out.calculated_deltas

\* C36: every tuple compute_deltas emits has a strictly positive send delta:
\* the closed group's send_time is later than the send_time of the group
\* closed before it.
C36_SendDeltaPositive ==
    LastEmitted =>
        /\ last.out.send_time_delta > 0
        /\ last.prev.current_timestamp_group.send_time
              > last.prev.prev_timestamp_group.send_time


\* The latest update ran detect past its guard on the number of deltas.
LastDetect == LastTrendlineUpdate /\ trendline.num_of_deltas >= 2

\* The modified trend of the latest update against the threshold it met.
LastAboveThreshold == f_gt(trendline.prev_modified_trend, last.prev.threshold)

LastAtMostThreshold == f_ge(last.prev.threshold, trendline.prev_modified_trend)

LastConfirmed ==
    /\ f_gt(LastTimeOverUsing, f_from_int(OVER_USING_TIME_THRESHOLD))
    /\ last.prev.overuse_counter + 1 > 1
    /\ f_ge(last.trend, last.prev.prev_trend)

\* C37: a sample above the threshold whose over-use is not confirmed leaves
\* the hypothesis as it was, advancing the counter and the timer; a sample
\* at or below the threshold sets it to Underusing or Normal and clears the
\* counter and the timer.
C37_UnconfirmedKeepsHypothesis ==
    LastDetect =>
        /\ (LastAboveThreshold /\ ~LastConfirmed) =>
               /\ trendline.hypothesis = last.prev.hypothesis
               /\ trendline.overuse_counter = last.prev.overuse_counter + 1
               /\ trendline.time_over_using = LastTimeOverUsing
        /\ LastAtMostThreshold =>
               /\ trendline.hypothesis \in {"Underusing", "Normal"}
               /\ trendline.hypothesis = "Underusing"
                     <=> f_lt(trendline.prev_modified_trend, f_neg(last.prev.threshold))
               /\ trendline.overuse_counter = 0
               /\ trendline.time_over_using = TIME_OVER_USING_UNDEFINED

\* An Underusing verdict persists through an unconfirmed sample above the
\* threshold.
C37_Witness ==
    /\ LastDetect
    /\ LastAboveThreshold
    /\ ~LastConfirmed
    /\ last.prev.hypothesis = "Underusing"
    /\ trendline.hypothesis = "Underusing"


\* C38: with at_time values that never decrease from call to call,
\* time_last_bitrate_decrease <= time_last_bitrate_change after every
\* update and set_estimate call (and in every state between calls).
C38_DecreaseNotAfterChange ==
    /\ aimd.time_last_bitrate_decrease <= aimd.time_last_bitrate_change
    /\ last.op \in {"update", "set_estimate"} =>
           /\ last.at_time >= last.prev.time_last_bitrate_change
           /\ aimd.time_last_bitrate_decrease \in
                  {last.prev.time_last_bitrate_decrease, last.at_time}

\* A decrease was stamped, and a later call stamped a change after it.
C38_Witness ==
    /\ last.op \in {"update", "set_estimate"}
    /\ is_finite(aimd.time_last_bitrate_decrease)
    /\ aimd.time_last_bitrate_decrease < aimd.time_last_bitrate_change
    /\ aimd.time_last_bitrate_change = last.at_time


LastUnderuseInitialized ==
    /\ LastUpdate
    /\ last.input.bw_state = "Underusing"
    /\ last.prev.bitrate_is_initialized

\* The bitrate an update on Hold ends with: the current bitrate, bounded by a
\* link_capacity_upper that applies on its own, kept from falling below
\* beta * link_capacity_lower, and raised to min_configured_bitrate.
HeldBitrate(self) ==
    LET bounded ==
            IF /\ UpperInstalled(self)
               /\ ~self.disable_estimate_bounded_increase
               /\ ~self.use_current_estimate_as_min_upper_bound
            THEN Min(self.network_estimate.v.link_capacity_upper, self.current_bitrate)
            ELSE self.current_bitrate
        floored ==
            IF LowerInstalled(self) /\ bounded < self.current_bitrate
            THEN Min(self.current_bitrate,
                     Max(bounded,
                         (self.network_estimate.v.link_capacity_lower * self.beta) \div 100))
            ELSE bounded
    IN  Max(floored, self.min_configured_bitrate)

\* C39, amended: an update with Underusing input on an initialized controller
\* sets rate_control_state to Hold, takes the input's throughput (if any) as
\* latest_estimated_throughput, and clamps current_bitrate again to the
\* bounds in force; time_last_bitrate_change, time_last_bitrate_decrease,
\* last_decrease, the link-capacity estimator and every other field are as
\* before.
C39_UnderuseReclamps ==
    LastUnderuseInitialized =>
        aimd = [last.prev EXCEPT
                   !.rate_control_state = "Hold",
                   !.latest_estimated_throughput = LastThroughput,
                   !.current_bitrate = HeldBitrate(last.prev)]

\* Under-use lowers a bitrate that is above an installed upper bound.
C39_Witness ==
    /\ LastUnderuseInitialized
    /\ last.prev.current_bitrate >= last.prev.min_configured_bitrate
    /\ aimd.current_bitrate < last.prev.current_bitrate
    /\ aimd.current_bitrate = last.prev.network_estimate.v.link_capacity_upper

\* C39 as stated: current_bitrate too is as before.
C39_UnderuseFrame ==
    LastUnderuseInitialized =>
        /\ aimd.rate_control_state = "Hold"
        /\ aimd = [last.prev EXCEPT
                      !.rate_control_state = "Hold",
                      !.latest_estimated_throughput = aimd.latest_estimated_throughput]


\* C40: after every compute_deltas call num_consecutive_reordered_packets is
\* 0, 1 or 2; a call that finds it at 2 and counts one more resets the
\* grouper, so the counter never holds 3.
C40_ReorderCounterBounded ==
    /\ inter_arrival.num_consecutive_reordered_packets \in {0, 1, 2}
    /\ inter_arrival.num_consecutive_reordered_packets
          < REORDERED_RESET_THRESHOLD

\* Two reordered boundaries in a row have been counted.
C40_Witness ==
    /\ last.op = "compute_deltas"
    /\ last.out.branch = "reordered_group"
    /\ last.prev.num_consecutive_reordered_packets = 1
    /\ inter_arrival.num_consecutive_reordered_packets = 2

====
